---- MODULE Spec2Model ----
(***************************************************************************)
(* Model of ubem-mcp's two analytical functions:                           *)
(*   tools/weather_analysis.py          analyze_epw_hottest_days,          *)
(*                                      get_hottest_day_date               *)
(*   tools/thermal_comfort_analysis.py  load_hourly_temperature_data,      *)
(*                                      analyse_comfort_thresholds         *)
(* Floating point values are modelled as exact rationals <<num, den>>      *)
(* (den > 0, lowest terms) plus one NaN value; rounding is not modelled.   *)
(***************************************************************************)
EXTENDS Integers, Sequences, FiniteSets, TLC

VARIABLES
    epw,          \* the rows pandas.read_csv yields for the EPW file (after the 8 header lines)
    top_n,        \* the top_n argument
    det_pc,       \* "idle" before the detector ran, "done" after ("off": not part of the run)
    det_result,   \* the dictionary analyze_epw_hottest_days returned
    date_result,  \* what get_hottest_day_date returned: <<month, day>>, or <<>> for None
    date_pc,      \* "idle" | "done" for get_hottest_day_date ("off": not part of the run)
    baseline_csv, \* the baseline table as pandas.read_csv yields it
    modified_csv, \* the modified table as pandas.read_csv yields it
    start_hour,   \* event_start_hour
    thresholds,   \* <<>> for None, <<map>> for a supplied label -> temperature mapping
    comfort_pc,   \* "start" | "loaded" | "done" | "failed" ("idle": not part of the run)
    frames,       \* what load_hourly_temperature_data returned
    comfort_error,     \* the exception that ended the comfort analysis, "" if none
    threshold_results, \* what analyse_comfort_thresholds returned: label -> BreachResult
    call_args,    \* per concurrent invocation: the function called and its own arguments
    call_pc,      \* per concurrent invocation: the statement it has reached
    call_frame,   \* the local variables of the invocations, one frame per slot
    call_result,  \* per concurrent invocation: what it returned, NotCalled before
    sim_args,     \* run_energyplus_simulation: [expand |-> expand_objects_exe is given and exists]
    sim_files,    \* the files present in output_dir
    sim_pc,       \* "start" | "expand" | "energyplus" | "check" | "returned" ("off": not called)
    sim_idf,      \* the local idf_path: "original" or "expanded"
    sim_expand,   \* how the ExpandObjects block ended, "none" before it
    sim_invoked,  \* <<>> before EnergyPlus is launched, then <<[idf |-> the IDF it was
                  \* given, ended |-> "exit" | "timeout" | "oserror"]>>
    sim_rc,       \* <<>> or <<result.returncode>> of the EnergyPlus process
    sim_result,   \* the dictionary run_energyplus_simulation returned
    hvac_args,    \* modify_idf_hvac_schedule: schedule_action, start_month, start_day and
                  \* the optional end_month, end_day (<<>> is None)
    hvac_idf,     \* the IDF file at idf_path: its ideal-loads systems of both classes
    hvac_out,     \* <<>> or <<the IDF saved at output_path>>
    hvac_result,  \* the dictionary modify_idf_hvac_schedule returned
    batch_args,   \* batch run: [fn |-> "simulate" | "modify", max_buildings |-> <<>> or <<n>>]
    batch_dir,    \* idf_directory as the file system lists it: entries [name, ext]
    batch_pc,     \* "start" | "loop" | "returned" ("off": not called)
    batch_files,  \* the local idf_files: the names to process
    batch_i,      \* the buildings the loop has gone through
    batch_results,\* the local results
    batch_counts, \* [success |-> ..., failed |-> ...]: the two counters
    batch_result, \* the dictionary the batch function returned
    ratio_rows,   \* breach ratio in binary64: len(baseline_event)
    ratio_counts, \* baseline_breach.sum(axis=0): per building, the event hours above t
    ratio_avg     \* avg_baseline as a binary64 number, NotCalled before

detVars == <<epw, top_n, det_pc, det_result, date_result, date_pc>>

comfortVars == <<baseline_csv, modified_csv, start_hour, thresholds, comfort_pc, frames,
                 comfort_error, threshold_results>>

callVars == <<call_args, call_pc, call_frame, call_result>>

simVars == <<sim_args, sim_files, sim_pc, sim_idf, sim_expand, sim_invoked, sim_rc, sim_result>>

hvacVars == <<hvac_args, hvac_idf, hvac_out, hvac_result>>

batchVars == <<batch_args, batch_dir, batch_pc, batch_files, batch_i, batch_results,
               batch_counts, batch_result>>

ratioVars == <<ratio_rows, ratio_counts, ratio_avg>>

toolVars == <<callVars, simVars, hvacVars, batchVars, ratioVars>>

vars == <<detVars, comfortVars, toolVars>>

\* no concurrent invocation is part of the run
CallsIdle ==
    /\ call_args = <<>>
    /\ call_pc = <<>>
    /\ call_frame = <<>>
    /\ call_result = <<>>

\* run_energyplus_simulation is not part of the run
SimIdle ==
    /\ sim_args = <<>>
    /\ sim_files = {}
    /\ sim_pc = "off"
    /\ sim_idf = "original"
    /\ sim_expand = "none"
    /\ sim_invoked = <<>>
    /\ sim_rc = <<>>
    /\ sim_result = <<>>

\* modify_idf_hvac_schedule is not part of the run
HvacIdle ==
    /\ hvac_args = <<>>
    /\ hvac_idf = <<>>
    /\ hvac_out = <<>>
    /\ hvac_result = <<>>

\* neither batch function is part of the run
BatchIdle ==
    /\ batch_args = <<>>
    /\ batch_dir = <<>>
    /\ batch_pc = "off"
    /\ batch_files = <<>>
    /\ batch_i = 0
    /\ batch_results = <<>>
    /\ batch_counts = <<>>
    /\ batch_result = <<>>

\* the binary64 computation of the breach ratio is not part of the run
RatioIdle ==
    /\ ratio_rows = 0
    /\ ratio_counts = <<>>
    /\ ratio_avg = <<>>

ToolsIdle == CallsIdle /\ SimIdle /\ HvacIdle /\ BatchIdle /\ RatioIdle

(***************************************************************************)
(* Bounds of the model.                                                    *)
(***************************************************************************)
MaxDays == 6     \* calendar days a generated weather file may cover
MaxTopN == 3     \* largest top_n tried
MaxRows == 3     \* rows of a free-form (unsorted, possibly malformed) file
MaxHours == 3    \* rows (hours) of a temperature table

(***************************************************************************)
(* Floats: exact rationals and NaN.                                        *)
(***************************************************************************)
NaN == <<0, 0>>

IsNaN(x) == x[2] = 0

Abs(n) == IF n < 0 THEN -n ELSE n

RECURSIVE GCD(_, _)
GCD(a, b) == IF b = 0 THEN a ELSE GCD(b, a % b)

Rat(n, d) ==
    LET g == GCD(Abs(n), d)
    IN  <<n \div g, d \div g>>

FromInt(n) == <<n, 1>>

FAdd(x, y) ==
    IF IsNaN(x) \/ IsNaN(y) THEN NaN
    ELSE Rat(x[1] * y[2] + y[1] * x[2], x[2] * y[2])

\* faulty variant of FSub: the operands swapped
FSubReversed(x, y) ==
    IF IsNaN(x) \/ IsNaN(y) THEN NaN
    ELSE Rat(y[1] * x[2] - x[1] * y[2], x[2] * y[2])

FSub(x, y) ==
    IF IsNaN(x) \/ IsNaN(y) THEN NaN
    ELSE Rat(x[1] * y[2] - y[1] * x[2], x[2] * y[2])

\* x / k for an integer k > 0
FDivInt(x, k) == IF IsNaN(x) THEN NaN ELSE Rat(x[1], x[2] * k)

\* Python's x > y on floats: False as soon as one side is NaN
FGt(x, y) == ~IsNaN(x) /\ ~IsNaN(y) /\ x[1] * y[2] > y[1] * x[2]

FGe(x, y) == ~IsNaN(x) /\ ~IsNaN(y) /\ x[1] * y[2] >= y[1] * x[2]

RECURSIVE FSum(_)
FSum(s) == IF s = <<>> THEN FromInt(0) ELSE FAdd(s[1], FSum(Tail(s)))

\* numpy.mean of a non-empty list
NpMean(s) == FDivInt(FSum(s), Len(s))

\* numpy.max of a non-empty list: NaN propagates
RECURSIVE NpMax(_)
NpMax(s) ==
    IF Len(s) = 1 THEN s[1]
    ELSE LET m == NpMax(Tail(s))
         IN  IF IsNaN(s[1]) \/ IsNaN(m) THEN NaN
             ELSE IF FGt(s[1], m) THEN s[1] ELSE m

(***************************************************************************)
(* Cells of the frame read by pandas.read_csv: a number, NaN (an empty or  *)
(* NA field) or a string (text that is no number).                         *)
(***************************************************************************)
Num(v) == [k |-> "num", v |-> v]
NaCell == [k |-> "nan", v |-> 0]
StrCell == [k |-> "str", v |-> 0]

\* int(cell) raises ValueError for NaN and for text
IntRaises(c) == c.k # "num"

PyInt(c) == c.v

\* float(cell) raises ValueError for text only; float(NaN) is NaN
FloatRaises(c) == c.k = "str"

PyFloat(c) == IF c.k = "nan" THEN NaN ELSE FromInt(c.v)

\* lines 36-39: the conversions of one row, in order
RowRaises(r) ==
    IntRaises(r.month) \/ IntRaises(r.day) \/ IntRaises(r.hour) \/ FloatRaises(r.temp)

\* lines 35-42: the parsed (month, day, hour) and temperature lists
ParseDates(rows) ==
    [i \in 1..Len(rows) |-> <<PyInt(rows[i].month), PyInt(rows[i].day), PyInt(rows[i].hour)>>]

ParseTemps(rows) == [i \in 1..Len(rows) |-> PyFloat(rows[i].temp)]

(***************************************************************************)
(* Daily aggregation, lines 44-55.                                         *)
(***************************************************************************)
\* keys of daily_temps in insertion order (first occurrence of each (month, day))
RECURSIVE DateKeys(_)
DateKeys(dates) ==
    IF dates = <<>> THEN <<>>
    ELSE LET front == DateKeys(SubSeq(dates, 1, Len(dates) - 1))
             key == <<dates[Len(dates)][1], dates[Len(dates)][2]>>
         IN  IF \E i \in 1..Len(front) : front[i] = key THEN front
             ELSE Append(front, key)

\* faulty variant of DailyTemps: daily_temps[key] = temp instead of append, the last sample wins
RECURSIVE DailyTempsLast(_, _, _)
DailyTempsLast(dates, temps, key) ==
    IF dates = <<>> THEN <<>>
    ELSE LET rest == DailyTempsLast(Tail(dates), Tail(temps), key)
         IN  IF <<dates[1][1], dates[1][2]>> = key /\ rest = <<>> THEN <<temps[1]>> ELSE rest

\* daily_temps[key]: the temperatures of the samples with that key, in file order
RECURSIVE DailyTemps(_, _, _)
DailyTemps(dates, temps, key) ==
    IF dates = <<>> THEN <<>>
    ELSE LET rest == DailyTemps(Tail(dates), Tail(temps), key)
         IN  IF <<dates[1][1], dates[1][2]>> = key THEN <<temps[1]>> \o rest ELSE rest

DailyAvg(dates, temps, key) == NpMean(DailyTemps(dates, temps, key))

DailyMax(dates, temps, key) == NpMax(DailyTemps(dates, temps, key))

(***************************************************************************)
(* Day of year, lines 58-60.                                               *)
(***************************************************************************)
days_in_month == <<31, 28, 31, 30, 31, 30, 31, 31, 30, 31, 30, 31>>

RECURSIVE SumFirst(_, _)
SumFirst(s, n) == IF n <= 0 THEN 0 ELSE s[n] + SumFirst(s, n - 1)

\* sum(days_in_month[:month-1]) + day, for month in 1..13
to_day_of_year(month, day) == SumFirst(days_in_month, month - 1) + day

(***************************************************************************)
(* all_days, lines 74-78: tuples (doy, month, day, avg, max), sorted.      *)
(***************************************************************************)
DayTuple(dates, temps, key) ==
    <<to_day_of_year(key[1], key[2]), key[1], key[2],
      DailyAvg(dates, temps, key), DailyMax(dates, temps, key)>>

\* Python's tuple order; (month, day) keys are unique, so the first three decide
TupleLess(a, b) ==
    \/ a[1] < b[1]
    \/ a[1] = b[1] /\ a[2] < b[2]
    \/ a[1] = b[1] /\ a[2] = b[2] /\ a[3] < b[3]

RECURSIVE InsertSorted(_, _)
InsertSorted(s, x) ==
    IF s = <<>> THEN <<x>>
    ELSE IF TupleLess(x, s[1]) THEN <<x>> \o s
    ELSE <<s[1]>> \o InsertSorted(Tail(s), x)

RECURSIVE SortTuples(_)
SortTuples(s) ==
    IF s = <<>> THEN <<>>
    ELSE InsertSorted(SortTuples(SubSeq(s, 1, Len(s) - 1)), s[Len(s)])

AllDays(dates, temps) ==
    LET keys == DateKeys(dates)
    IN  SortTuples([i \in 1..Len(keys) |-> DayTuple(dates, temps, keys[i])])

(***************************************************************************)
(* The sliding window search, lines 80-97.  Indices are 0-based as in the  *)
(* code; all_days[i + 1] here is all_days[i] there.                        *)
(***************************************************************************)
BestAvgInit == -999

\* faulty variant of IsConsecutive: the gap check dropped, every window counts
IsConsecutiveAlways(all_days, i, n) == TRUE

\* lines 86-90
IsConsecutive(all_days, i, n) ==
    \A j \in 0..(n - 2) : all_days[i + j + 2][1] = all_days[i + j + 1][1] + 1

\* line 94
WindowAvg(all_days, i, n) == NpMean([j \in 1..n |-> all_days[i + j][4]])

\* faulty variant of SearchStep: >= instead of >, the last maximum wins
SearchStepLastWins(all_days, n, i, best) ==
    IF IsConsecutive(all_days, i, n) /\ FGe(WindowAvg(all_days, i, n), best.best_avg)
    THEN [best_avg |-> WindowAvg(all_days, i, n), best_start_idx |-> i]
    ELSE best

\* lines 92-97: one iteration of the loop body
SearchStep(all_days, n, i, best) ==
    IF IsConsecutive(all_days, i, n) /\ FGt(WindowAvg(all_days, i, n), best.best_avg)
    THEN [best_avg |-> WindowAvg(all_days, i, n), best_start_idx |-> i]
    ELSE best

\* lines 84-97: for i in range(len(all_days) - top_n + 1)
RECURSIVE SearchFrom(_, _, _, _)
SearchFrom(all_days, n, i, best) ==
    IF i >= Len(all_days) - n + 1 THEN best
    ELSE SearchFrom(all_days, n, i + 1, SearchStep(all_days, n, i, best))

\* lines 81-97
FindBest(all_days, n) ==
    SearchFrom(all_days, n, 0, [best_avg |-> FromInt(BestAvgInit), best_start_idx |-> 0])

(***************************************************************************)
(* The result, lines 99-133, and the error outcome, lines 135-140.         *)
(***************************************************************************)
\* faulty variant of HottestDays: the window listed hottest day first
HottestDaysByTemp(all_days, start, n) ==
    LET hotter(a, b) == FGt(all_days[start + a][4], all_days[start + b][4])
                          \/ (all_days[start + a][4] = all_days[start + b][4] /\ a < b)
        pos(i) == CHOOSE a \in 1..n : Cardinality({b \in 1..n : hotter(b, a)}) = i - 1
    IN  [i \in 1..n |->
            [rank |-> i,
             month |-> all_days[start + pos(i)][2],
             day |-> all_days[start + pos(i)][3],
             average_temperature |-> all_days[start + pos(i)][4],
             maximum_temperature |-> all_days[start + pos(i)][5]]]

\* lines 100-103, 113-123: the window in all_days order, rank i + 1 at position i
HottestDays(all_days, start, n) ==
    [i \in 1..n |->
        [rank |-> i,
         month |-> all_days[start + i][2],
         day |-> all_days[start + i][3],
         average_temperature |-> all_days[start + i][4],
         maximum_temperature |-> all_days[start + i][5]]]

Failure(e) == [success |-> FALSE, error |-> e]

\* lines 99-133
BuildResult(all_days, n) ==
    LET best == FindBest(all_days, n)
    IN  IF best.best_start_idx + n > Len(all_days)
        THEN Failure("IndexError")     \* line 102: list index out of range
        ELSE LET days == HottestDays(all_days, best.best_start_idx, n)
             IN  [success |-> TRUE,
                  consecutive_days |-> n,
                  top_hottest_days |-> days,
                  earliest_hot_day |-> [month |-> days[1].month, day |-> days[1].day],
                  sequence_average_temperature |-> best.best_avg]

\* lines 27-140
analyze_epw_hottest_days(rows, n) ==
    IF rows = <<>> THEN Failure("EmptyDataError")      \* line 29: nothing to parse
    ELSE IF \E i \in 1..Len(rows) : RowRaises(rows[i]) THEN Failure("ValueError")
    ELSE BuildResult(AllDays(ParseDates(rows), ParseTemps(rows)), n)

\* lines 154-158; None is <<>>
get_hottest_day_date(rows, n) ==
    LET result == analyze_epw_hottest_days(rows, n)
    IN  IF result.success
        THEN <<result.earliest_hot_day.month, result.earliest_hot_day.day>>
        ELSE <<>>

(***************************************************************************)
(* Inputs of the detector.                                                 *)
(***************************************************************************)
\* the calendar days a generated file may hold; 2/29 is present in leap-year files
DayPool == <<<<2, 27>>, <<2, 28>>, <<2, 29>>, <<3, 1>>, <<3, 2>>, <<3, 3>>, <<3, 4>>, <<3, 5>>>>

TempSet == {20, 30}

GoodRow(m, d, t) == [month |-> Num(m), day |-> Num(d), hour |-> Num(1), temp |-> Num(t)]

\* one sample per chosen day, in calendar order; f[i] = 0 leaves day i out
RECURSIVE DayRows(_, _)
DayRows(f, i) ==
    IF i = 0 THEN <<>>
    ELSE IF f[i] = 0 THEN DayRows(f, i - 1)
    ELSE Append(DayRows(f, i - 1), GoodRow(DayPool[i][1], DayPool[i][2], f[i]))

DailyFiles == { DayRows(f, MaxDays) : f \in [1..MaxDays -> {0} \cup TempSet] }

\* rows of free-form files: samples of two days in any order, and rows with one
\* field that is missing (NaN) or text
FreeRows ==
    { GoodRow(3, d, t) : d \in {1, 2}, t \in TempSet }
    \cup { [GoodRow(3, 1, 20) EXCEPT ![fld] = c] :
             fld \in {"month", "day", "hour", "temp"}, c \in {NaCell, StrCell} }

RECURSIVE SeqsUpTo(_, _)
SeqsUpTo(S, n) ==
    IF n = 0 THEN {<<>>}
    ELSE LET shorter == SeqsUpTo(S, n - 1)
         IN  shorter \cup { Append(s, x) : s \in shorter, x \in S }

FreeFiles == SeqsUpTo(FreeRows, MaxRows)

NotCalled == [called |-> FALSE]

\* the comfort analysis is not part of the run
ComfortIdle ==
    /\ baseline_csv = NotCalled
    /\ modified_csv = NotCalled
    /\ start_hour = 0
    /\ thresholds = <<>>
    /\ comfort_pc = "idle"
    /\ frames = NotCalled
    /\ comfort_error = ""
    /\ threshold_results = NotCalled

InitDetector ==
    /\ epw \in DailyFiles \cup FreeFiles
    /\ top_n \in 1..MaxTopN
    /\ det_pc = "idle"
    /\ det_result = NotCalled
    /\ date_pc = "idle"
    /\ date_result = NotCalled
    /\ ComfortIdle
    /\ ToolsIdle

(***************************************************************************)
(* Actions of the detector: one per call.                                  *)
(***************************************************************************)
AnalyzeEpw ==
    /\ det_pc = "idle"
    /\ det_result' = analyze_epw_hottest_days(epw, top_n)
    /\ det_pc' = "done"
    /\ UNCHANGED <<epw, top_n, date_result, date_pc, comfortVars, toolVars>>

GetHottestDayDate ==
    /\ date_pc = "idle"
    /\ date_result' = get_hottest_day_date(epw, top_n)
    /\ date_pc' = "done"
    /\ UNCHANGED <<epw, top_n, det_result, det_pc, comfortVars, toolVars>>

NextDetector == AnalyzeEpw \/ GetHottestDayDate

SpecDetector == InitDetector /\ [][NextDetector]_vars

(***************************************************************************)
(* Temperature tables.  A table is [columns, rows]: the header in file     *)
(* order and one function column -> value per row; the row index of        *)
(* pandas is the position minus one.                                       *)
(***************************************************************************)
Range(s) == { s[i] : i \in 1..Len(s) }

\* lines 92-95: DateTime = 2020-01-01 00:00 + i hours, kept as the hour offset i
AddDateTime(t) ==
    [columns |-> Append(t.columns, "DateTime"),
     rows |-> [i \in 1..Len(t.rows) |->
                 [c \in (DOMAIN t.rows[i]) \cup {"DateTime"} |->
                     IF c = "DateTime" THEN i - 1 ELSE t.rows[i][c]]]]

IsBuildingCol(c) == c \notin {"Hour", "DateTime"}

\* faulty variant of load_hourly_temperature_data: the column check of lines 88-89 dropped
LoadUnchecked(baseline, modified) ==
    [raised |-> "",
     baseline_df |-> AddDateTime(baseline),
     modified_df |-> AddDateTime(modified),
     building_cols |-> SelectSeq(AddDateTime(baseline).columns, IsBuildingCol)]

\* lines 84-115; the Temp_Mean/Min/Max/Std columns of lines 105-113 are read by
\* the charts and the report only and are left out
load_hourly_temperature_data(baseline, modified) ==
    IF baseline.columns # modified.columns
    THEN [raised |-> "ValueError: Column mismatch between baseline and modified files",
          baseline_df |-> NotCalled, modified_df |-> NotCalled, building_cols |-> <<>>]
    ELSE [raised |-> "",
          baseline_df |-> AddDateTime(baseline),
          modified_df |-> AddDateTime(modified),
          building_cols |-> SelectSeq(AddDateTime(baseline).columns, IsBuildingCol)]

\* lines 139-144
DefaultThresholds ==
    [comfort_limit |-> 26, acceptable_limit |-> 28, health_risk |-> 30, severe_risk |-> 35]

\* A threshold value is a cell: Num(v) for a number, StrCell for a JSON string
\* and JsonNull for None (JSON null), as json.loads of server.py line 597 yields them.
JsonNull == [k |-> "none", v |-> 0]

\* faulty variant of Exceeds: the temperatures below the threshold count
ExceedsBelow(v, t) == t.k = "num" /\ v < t.v

\* faulty variant of Exceeds: a temperature equal to the threshold counts
ExceedsOrEquals(v, t) == t.k = "num" /\ v >= t.v

\* lines 154-155: one cell of (frame[building_cols] > threshold_temp).  pandas
\* answers False everywhere when the scalar is None; a string scalar never gets
\* here, the comparison raises TypeError for the whole frame.
Exceeds(v, t) == t.k = "num" /\ v > t.v

\* faulty variant of EventMask: every row is taken into the event window
EventMaskAllRows(baseline_df, start) == 1..Len(baseline_df.rows)

\* line 147: positions (1-based) of the baseline rows with Hour >= start_hour
EventMask(baseline_df, start) ==
    { i \in 1..Len(baseline_df.rows) : baseline_df.rows[i]["Hour"] >= start }

SetMin(S) == CHOOSE m \in S : \A x \in S : m <= x

\* faulty variant of IdxMax: the event is taken to start at the first row
IdxMaxFirstRow(mask) == 0

\* event_mask.idxmax(): index of the first True, the first index when none is
IdxMax(mask) == IF mask = {} THEN 0 ELSE SetMin(mask) - 1

\* faulty variant of AvgBreachRatio: the counts divided by all rows of the frame
AvgBreachRatioOfAllRows(df, event, cols, t) ==
    LET ratio(c) ==
            IF event = {} THEN NaN
            ELSE Rat(100 * Cardinality({ i \in event : Exceeds(df.rows[i][c], t) }),
                     Len(df.rows))
    IN  NpMean([k \in 1..Len(cols) |-> ratio(cols[k])])

\* lines 154-158, 160-161: mean over the building columns of
\* (breaching rows of the column) / len(event) * 100; 0 / 0 is NaN
AvgBreachRatio(df, event, cols, t) ==
    LET ratio(c) ==
            IF event = {} THEN NaN
            ELSE Rat(100 * Cardinality({ i \in event : Exceeds(df.rows[i][c], t) }),
                     Cardinality(event))
    IN  NpMean([k \in 1..Len(cols) |-> ratio(cols[k])])

\* lines 165: buildings above the threshold in row i
BreachCount(df, i, cols, t) ==
    Cardinality({ k \in 1..Len(cols) : Exceeds(df.rows[i][cols[k]], t) })

\* faulty variant of MajorityRows: half of the buildings is enough
MajorityRowsAtLeastHalf(df, event, cols, t) ==
    { i \in event : 2 * BreachCount(df, i, cols, t) >= Len(cols) }

\* lines 166-168: the event rows where more than half of the buildings breach
MajorityRows(df, event, cols, t) ==
    { i \in event : 2 * BreachCount(df, i, cols, t) > Len(cols) }

\* lines 153-185 for one threshold; None is <<>>, a value v is <<v>>
BreachResult(baseline_df, modified_df, cols, mask, t) ==
    LET baseline_event == mask
        modified_event == mask \cap (1..Len(modified_df.rows))
        avg_baseline == AvgBreachRatio(baseline_df, baseline_event, cols, t)
        avg_modified == AvgBreachRatio(modified_df, modified_event, cols, t)
        first == MajorityRows(modified_df, modified_event, cols, t)
    IN  [threshold_temp |-> t,
         baseline_breach_ratio |-> avg_baseline,
         modified_breach_ratio |-> avg_modified,
         increase |-> FSub(avg_modified, avg_baseline),
         first_breach_time |->
            IF first = {} THEN <<>> ELSE <<modified_df.rows[SetMin(first)]["DateTime"]>>,
         hours_after_event_start |->
            IF first = {} THEN <<>> ELSE <<(SetMin(first) - 1) - IdxMax(mask)>>]

\* faulty variant of analyse_comfort_thresholds: a label without a majority
\* breach gets no entry
AnalyseBreachedOnly(baseline_df, modified_df, building_cols, start, thr) ==
    LET th == IF thr = <<>>
              THEN [label \in DOMAIN DefaultThresholds |-> Num(DefaultThresholds[label])]
              ELSE thr[1]
        res == [label \in DOMAIN th |->
                   BreachResult(baseline_df, modified_df, building_cols,
                                EventMask(baseline_df, start), th[label])]
    IN  IF "Hour" \notin Range(baseline_df.columns)
        THEN [raised |-> "KeyError: 'Hour'", results |-> NotCalled]
        ELSE IF Len(modified_df.rows) > Len(baseline_df.rows)
        THEN [raised |-> "IndexingError: Unalignable boolean Series provided as indexer",
              results |-> NotCalled]
        ELSE IF \E k \in 1..Len(building_cols) :
                    \/ building_cols[k] \notin Range(baseline_df.columns)
                    \/ building_cols[k] \notin Range(modified_df.columns)
        THEN [raised |-> "KeyError: not in index", results |-> NotCalled]
        ELSE IF \E label \in DOMAIN th : th[label].k = "str"
        THEN [raised |-> "TypeError: Invalid comparison between dtype=float64 and str",
              results |-> NotCalled]
        ELSE [raised |-> "",
              results |-> [label \in { l \in DOMAIN th : res[l].first_breach_time # <<>> }
                              |-> res[label]]]

\* lines 138-187; raised names the exception that leaves the function, "" if none
analyse_comfort_thresholds(baseline_df, modified_df, building_cols, start, thr) ==
    LET th == IF thr = <<>>
              THEN [label \in DOMAIN DefaultThresholds |-> Num(DefaultThresholds[label])]
              ELSE thr[1]
    IN  IF "Hour" \notin Range(baseline_df.columns)
        THEN [raised |-> "KeyError: 'Hour'", results |-> NotCalled]                 \* line 147
        ELSE IF Len(modified_df.rows) > Len(baseline_df.rows)
        THEN [raised |-> "IndexingError: Unalignable boolean Series provided as indexer",
              results |-> NotCalled]                                               \* line 149
        ELSE IF \E k \in 1..Len(building_cols) :
                    \/ building_cols[k] \notin Range(baseline_df.columns)
                    \/ building_cols[k] \notin Range(modified_df.columns)
        THEN [raised |-> "KeyError: not in index", results |-> NotCalled]          \* lines 154-155
        ELSE IF \E label \in DOMAIN th : th[label].k = "str"
        THEN [raised |-> "TypeError: Invalid comparison between dtype=float64 and str",
              results |-> NotCalled]                                               \* lines 154-155
        ELSE [raised |-> "",
              results |-> [label \in DOMAIN th |->
                              BreachResult(baseline_df, modified_df, building_cols,
                                           EventMask(baseline_df, start), th[label])]]

(***************************************************************************)
(* Inputs of the comfort analysis.                                         *)
(***************************************************************************)
StdColumns == <<"Hour", "A", "B">>

ColumnLists ==
    {StdColumns, <<"Hour", "B", "A">>, <<"Hour", "A">>, <<"Hour", "A", "C">>, <<"A", "B">>}

\* 26 is the comfort limit itself, 29 lies above the comfort and the acceptable limit
TempLevels == {26, 29}

\* the table with row i at Hour = i and building c at tf[i][c]
TableOf(cols, n, tf) ==
    [columns |-> cols,
     rows |-> [i \in 1..n |-> [c \in Range(cols) |-> IF c = "Hour" THEN i ELSE tf[i][c]]]]

\* baseline: the HVAC runs, all buildings of an hour are at the same level
BaselineTables(n) ==
    { TableOf(StdColumns, n, [i \in 1..n |-> [c \in {"A", "B"} |-> lv[i]]]) :
        lv \in [1..n -> TempLevels] }

\* modified: every building of every hour at any level
ModifiedTables(n) ==
    { TableOf(StdColumns, n, tf) : tf \in [1..n -> [{"A", "B"} -> TempLevels]] }

UniformTable(cols, n, v) == TableOf(cols, n, [i \in 1..n |-> [c \in Range(cols) |-> v]])

\* tables with the standard columns and any two row counts
InitAligned ==
    /\ \E nb, nm \in 1..MaxHours :
         /\ baseline_csv \in BaselineTables(nb)
         /\ modified_csv \in ModifiedTables(nm)
    /\ start_hour \in 1..(MaxHours + 1)

\* tables with any two headers, two rows each
InitHeaders ==
    /\ \E bc, mc \in ColumnLists :
         /\ baseline_csv = UniformTable(bc, 2, 26)
         /\ modified_csv = UniformTable(mc, 2, 29)
    /\ start_hour \in 1..2

\* thresholds given by the caller: two numbers, one number, a number followed
\* by a string, a number followed by null
ThresholdSets ==
    { <<[warm |-> Num(25), hot |-> Num(28)]>>,
      <<[hot |-> Num(28)]>>,
      <<[warm |-> Num(25), text |-> StrCell]>>,
      <<[warm |-> Num(25), unset |-> JsonNull]>> }

\* two-row tables with the standard columns and thresholds of the caller
InitThresholds ==
    /\ baseline_csv \in BaselineTables(2)
    /\ modified_csv \in ModifiedTables(2)
    /\ start_hour \in 1..3
    /\ thresholds \in ThresholdSets

DetectorIdle ==
    /\ epw = <<>>
    /\ top_n = 1
    /\ det_pc = "off"
    /\ det_result = NotCalled
    /\ date_pc = "off"
    /\ date_result = NotCalled

InitComfort ==
    /\ DetectorIdle
    /\ ToolsIdle
    /\ \/ (InitAligned \/ InitHeaders) /\ thresholds = <<>>
       \/ InitThresholds
    /\ comfort_pc = "start"
    /\ frames = NotCalled
    /\ comfort_error = ""
    /\ threshold_results = NotCalled

(***************************************************************************)
(* Actions of the comfort analysis: the two calls of the handler           *)
(* analyse_thermal_comfort (server.py lines 601-616); an exception of      *)
(* either ends the handler in its except clause (lines 661-667).           *)
(***************************************************************************)
LoadHourlyTemperatureData ==
    /\ comfort_pc = "start"
    /\ LET out == load_hourly_temperature_data(baseline_csv, modified_csv)
       IN  /\ frames' = out
           /\ comfort_error' = out.raised
           /\ comfort_pc' = IF out.raised = "" THEN "loaded" ELSE "failed"
    /\ UNCHANGED <<detVars, baseline_csv, modified_csv, start_hour, thresholds,
                   threshold_results, toolVars>>

AnalyseComfortThresholds ==
    /\ comfort_pc = "loaded"
    /\ LET out == analyse_comfort_thresholds(frames.baseline_df, frames.modified_df,
                                             frames.building_cols, start_hour, thresholds)
       IN  /\ threshold_results' = out.results
           /\ comfort_error' = out.raised
           /\ comfort_pc' = IF out.raised = "" THEN "done" ELSE "failed"
    /\ UNCHANGED <<detVars, baseline_csv, modified_csv, start_hour, thresholds, frames,
                   toolVars>>

NextComfort == LoadHourlyTemperatureData \/ AnalyseComfortThresholds

SpecComfort == InitComfort /\ [][NextComfort]_vars

(***************************************************************************)
(* The comfort analysis on two tables of WindowRows rows each, with the    *)
(* default thresholds or thresholds of the caller, and the event starting  *)
(* at any row or after the last.                                           *)
(***************************************************************************)
WindowRows == 2

InitWindow ==
    /\ DetectorIdle
    /\ ToolsIdle
    /\ baseline_csv \in BaselineTables(WindowRows)
    /\ modified_csv \in ModifiedTables(WindowRows)
    /\ start_hour \in 1..(WindowRows + 1)
    /\ thresholds \in {<<>>, <<[warm |-> Num(25), hot |-> Num(28)]>>}
    /\ comfort_pc = "start"
    /\ frames = NotCalled
    /\ comfort_error = ""
    /\ threshold_results = NotCalled

SpecWindow == InitWindow /\ [][NextComfort]_vars

(***************************************************************************)
(* Concurrent invocations.  Each invocation of analyze_epw_hottest_days or *)
(* analyse_comfort_thresholds has its own argument objects and runs in     *)
(* steps, one per block of statements; between two steps any other         *)
(* invocation may run.  The functions assign only to local variables       *)
(* (dates, temperatures, daily_temps, all_days at weather_analysis.py      *)
(* lines 32-78; event_mask, results at thermal_comfort_analysis.py lines   *)
(* 147-151), which live in the frame of the invocation.                    *)
(***************************************************************************)
NumCalls == 2

Calls == 1..NumCalls

\* faulty variant of FrameOf: the locals are kept in one place for all invocations
SharedFrame(c) == 1

\* the slot of the locals of invocation c: a frame of its own
FrameOf(c) == c

\* lines 138-144: the thresholds in use
ThresholdsOrDefault(thr) ==
    IF thr = <<>>
    THEN [label \in DOMAIN DefaultThresholds |-> Num(DefaultThresholds[label])]
    ELSE thr[1]

\* what the function of an invocation returns when it runs from start to end
RunAlone(args) ==
    IF args.fn = "detector"
    THEN analyze_epw_hottest_days(args.epw, args.top_n)
    ELSE analyse_comfort_thresholds(args.baseline_df, args.modified_df,
                                    args.building_cols, args.start_hour, args.thresholds)

\* weather files of the concurrent invocations: two good ones, one with a text field
CallFiles ==
    { <<GoodRow(3, 1, 20), GoodRow(3, 2, 30)>>,
      <<GoodRow(3, 2, 20), GoodRow(3, 1, 30)>>,
      <<GoodRow(3, 1, 20), [GoodRow(3, 2, 30) EXCEPT !.temp = StrCell]>> }

DetectorArgs == { [fn |-> "detector", epw |-> f, top_n |-> n] : f \in CallFiles, n \in {1, 2} }

\* frames of the concurrent invocations, as load_hourly_temperature_data returns them
CallTables ==
    { UniformTable(StdColumns, 2, 29),
      TableOf(StdColumns, 2, [i \in 1..2 |-> [c \in {"A", "B"} |-> IF i = 1 THEN 29 ELSE 26]]) }

AnalyzerArgs ==
    { [fn |-> "analyzer",
       baseline_df |-> load_hourly_temperature_data(UniformTable(StdColumns, 2, 26), m).baseline_df,
       modified_df |-> load_hourly_temperature_data(UniformTable(StdColumns, 2, 26), m).modified_df,
       building_cols |->
           load_hourly_temperature_data(UniformTable(StdColumns, 2, 26), m).building_cols,
       start_hour |-> h,
       thresholds |-> t] :
        m \in CallTables, h \in {1, 2},
        t \in { <<[warm |-> Num(25), hot |-> Num(28)]>>, <<[warm |-> Num(25), text |-> StrCell]>> } }

\* the locals of an invocation before its first statement
EmptyFrame ==
    [dates |-> <<>>, temperatures |-> <<>>, all_days |-> <<>>,
     event_mask |-> {}, results |-> <<>>]

InitCalls ==
    /\ DetectorIdle
    /\ ComfortIdle
    /\ RatioIdle
    /\ SimIdle
    /\ HvacIdle
    /\ BatchIdle
    /\ call_args \in [Calls -> DetectorArgs \cup AnalyzerArgs]
    /\ call_pc = [c \in Calls |-> "start"]
    /\ call_frame = [c \in Calls |-> EmptyFrame]
    /\ call_result = [c \in Calls |-> NotCalled]

\* weather_analysis.py lines 29-42: read the file, parse every row
DetParse(c) ==
    /\ call_pc[c] = "start"
    /\ call_args[c].fn = "detector"
    /\ LET rows == call_args[c].epw
       IN  IF rows = <<>> \/ \E i \in 1..Len(rows) : RowRaises(rows[i])
           THEN /\ call_result' = [call_result EXCEPT ![c] = RunAlone(call_args[c])]
                /\ call_pc' = [call_pc EXCEPT ![c] = "returned"]
                /\ UNCHANGED call_frame
           ELSE /\ call_frame' = [call_frame EXCEPT ![FrameOf(c)] =
                                     [@ EXCEPT !.dates = ParseDates(rows),
                                               !.temperatures = ParseTemps(rows)]]
                /\ call_pc' = [call_pc EXCEPT ![c] = "parsed"]
                /\ UNCHANGED call_result
    /\ UNCHANGED <<detVars, comfortVars, ratioVars, simVars, hvacVars, batchVars, call_args>>

\* weather_analysis.py lines 44-78: group by day, aggregate, sort by day of year
DetAggregate(c) ==
    /\ call_pc[c] = "parsed"
    /\ call_frame' = [call_frame EXCEPT ![FrameOf(c)] =
                         [@ EXCEPT !.all_days =
                                     AllDays(call_frame[FrameOf(c)].dates,
                                             call_frame[FrameOf(c)].temperatures)]]
    /\ call_pc' = [call_pc EXCEPT ![c] = "sorted"]
    /\ UNCHANGED <<detVars, comfortVars, ratioVars, simVars, hvacVars, batchVars, call_args, call_result>>

\* weather_analysis.py lines 80-140: search the window, build the dictionary
DetReturn(c) ==
    /\ call_pc[c] = "sorted"
    /\ call_result' = [call_result EXCEPT ![c] =
                          BuildResult(call_frame[FrameOf(c)].all_days, call_args[c].top_n)]
    /\ call_pc' = [call_pc EXCEPT ![c] = "returned"]
    /\ UNCHANGED <<detVars, comfortVars, ratioVars, simVars, hvacVars, batchVars, call_args, call_frame>>

\* faulty variant of AnMask: the building column list of the caller is
\* reversed in place before the mask is built
AnMaskInPlace(c) ==
    /\ call_pc[c] = "start"
    /\ call_args[c].fn = "analyzer"
    /\ call_args' = [call_args EXCEPT ![c].building_cols =
                         [k \in 1..Len(@) |-> @[Len(@) + 1 - k]]]
    /\ IF RunAlone(call_args[c]).raised # ""
       THEN /\ call_result' = [call_result EXCEPT ![c] = RunAlone(call_args[c])]
            /\ call_pc' = [call_pc EXCEPT ![c] = "returned"]
            /\ UNCHANGED call_frame
       ELSE /\ call_frame' = [call_frame EXCEPT ![FrameOf(c)] =
                                 [@ EXCEPT !.event_mask = EventMask(call_args[c].baseline_df,
                                                                    call_args[c].start_hour),
                                           !.results = <<>>]]
            /\ call_pc' = [call_pc EXCEPT ![c] = "masked"]
            /\ UNCHANGED call_result
    /\ UNCHANGED <<detVars, comfortVars, ratioVars, simVars, hvacVars, batchVars>>

\* thermal_comfort_analysis.py lines 138-151: the event mask and the empty results
\* dictionary.  The exceptions of lines 147-155 all leave the function before
\* the first entry is stored and are taken here.
AnMask(c) ==
    /\ call_pc[c] = "start"
    /\ call_args[c].fn = "analyzer"
    /\ IF RunAlone(call_args[c]).raised # ""
       THEN /\ call_result' = [call_result EXCEPT ![c] = RunAlone(call_args[c])]
            /\ call_pc' = [call_pc EXCEPT ![c] = "returned"]
            /\ UNCHANGED call_frame
       ELSE /\ call_frame' = [call_frame EXCEPT ![FrameOf(c)] =
                                 [@ EXCEPT !.event_mask = EventMask(call_args[c].baseline_df,
                                                                    call_args[c].start_hour),
                                           !.results = <<>>]]
            /\ call_pc' = [call_pc EXCEPT ![c] = "masked"]
            /\ UNCHANGED call_result
    /\ UNCHANGED <<detVars, comfortVars, ratioVars, simVars, hvacVars, batchVars, call_args>>

\* thermal_comfort_analysis.py lines 153-185: one iteration of the loop; the
\* labels are taken in a fixed order, as the dictionary yields them
AnLabel(c) ==
    /\ call_pc[c] = "masked"
    /\ LET th == ThresholdsOrDefault(call_args[c].thresholds)
           fr == call_frame[FrameOf(c)]
           todo == (DOMAIN th) \ (DOMAIN fr.results)
       IN  /\ todo # {}
           /\ LET label == CHOOSE l \in todo : TRUE
                  entry == BreachResult(call_args[c].baseline_df, call_args[c].modified_df,
                                        call_args[c].building_cols, fr.event_mask, th[label])
              IN  call_frame' = [call_frame EXCEPT ![FrameOf(c)] =
                                    [fr EXCEPT !.results =
                                        [l \in (DOMAIN fr.results) \cup {label} |->
                                            IF l = label THEN entry ELSE fr.results[l]]]]
    /\ UNCHANGED <<detVars, comfortVars, ratioVars, simVars, hvacVars, batchVars, call_args, call_pc, call_result>>

\* thermal_comfort_analysis.py line 187
AnReturn(c) ==
    /\ call_pc[c] = "masked"
    /\ DOMAIN ThresholdsOrDefault(call_args[c].thresholds)
          \subseteq DOMAIN call_frame[FrameOf(c)].results
    /\ call_result' = [call_result EXCEPT ![c] =
                          [raised |-> "", results |-> call_frame[FrameOf(c)].results]]
    /\ call_pc' = [call_pc EXCEPT ![c] = "returned"]
    /\ UNCHANGED <<detVars, comfortVars, ratioVars, simVars, hvacVars, batchVars, call_args, call_frame>>

NextCalls ==
    \E c \in Calls :
        \/ DetParse(c)
        \/ DetAggregate(c)
        \/ DetReturn(c)
        \/ AnMask(c)
        \/ AnLabel(c)
        \/ AnReturn(c)

SpecConcurrent == InitCalls /\ [][NextCalls]_vars

(***************************************************************************)
(* run_energyplus_simulation, simulation_tools.py lines 33-101.  The file  *)
(* system and the two external programs are the environment: a step that  *)
(* calls into them takes any of the outcomes the call can have.            *)
(***************************************************************************)
SimFailure(e) == [success |-> FALSE, error |-> e]

\* output_dir may exist already (exist_ok=True) and hold files of an earlier run
InitSim ==
    /\ DetectorIdle
    /\ ComfortIdle
    /\ RatioIdle
    /\ CallsIdle
    /\ HvacIdle
    /\ BatchIdle
    /\ sim_args \in { [expand |-> b] : b \in BOOLEAN }
    /\ sim_files \in SUBSET {"in.idf", "expanded.idf", "eplusout.csv"}
    /\ sim_pc = "start"
    /\ sim_idf = "original"
    /\ sim_expand = "none"
    /\ sim_invoked = <<>>
    /\ sim_rc = <<>>
    /\ sim_result = NotCalled

\* line 34; an OSError ends in the handler of lines 96-101
SimMakeDirs ==
    /\ sim_pc = "start"
    /\ \/ /\ sim_pc' = "expand"
          /\ UNCHANGED sim_result
       \/ /\ sim_pc' = "returned"
          /\ sim_result' = SimFailure("OSError")
    /\ UNCHANGED <<detVars, comfortVars, ratioVars, callVars, hvacVars, batchVars, sim_args, sim_files, sim_idf, sim_expand,
                   sim_invoked, sim_rc>>

\* faulty variant: the ExpandObjects block without its own try, so that its
\* exceptions reach the handlers of lines 90-101
SimExpandObjectsUnguarded ==
    /\ sim_pc = "expand"
    /\ IF ~sim_args.expand
       THEN /\ sim_expand' = "skipped"
            /\ sim_pc' = "energyplus"
            /\ UNCHANGED <<sim_files, sim_idf, sim_result>>
       ELSE \/ /\ sim_expand' = "copy_error"
               /\ sim_pc' = "returned"
               /\ sim_result' = SimFailure("OSError")
               /\ UNCHANGED <<sim_files, sim_idf>>
            \/ /\ sim_expand' = "process_error"
               /\ sim_pc' = "returned"
               /\ sim_result' = SimFailure("OSError")
               /\ sim_files' = sim_files \cup {"in.idf"}
               /\ UNCHANGED sim_idf
            \/ /\ sim_expand' = "timeout"
               /\ sim_pc' = "returned"
               /\ sim_result' = SimFailure("Simulation timeout")
               /\ \E wrote \in SUBSET {"expanded.idf"} :
                     sim_files' = sim_files \cup {"in.idf"} \cup wrote
               /\ UNCHANGED sim_idf
            \/ /\ sim_expand' \in {"exit0", "exit1"}
               /\ sim_pc' = "energyplus"
               /\ \E wrote \in SUBSET {"expanded.idf"} :
                     sim_files' = sim_files \cup {"in.idf"} \cup wrote
               /\ sim_idf' = IF "expanded.idf" \in sim_files'
                             THEN "expanded" ELSE "original"
               /\ UNCHANGED sim_result
    /\ UNCHANGED <<detVars, comfortVars, ratioVars, callVars, hvacVars, batchVars, sim_args, sim_invoked, sim_rc>>

\* lines 37-59: the optional ExpandObjects block.  shutil.copy may raise; the
\* process may fail to start, run into its 300 s timeout, or exit with any
\* status, having written expanded.idf or not.  Every exception is swallowed
\* at lines 57-59.
SimExpandObjects ==
    /\ sim_pc = "expand"
    /\ IF ~sim_args.expand
       THEN /\ sim_expand' = "skipped"
            /\ UNCHANGED <<sim_files, sim_idf>>
       ELSE \/ /\ sim_expand' = "copy_error"                       \* line 42 raises
               /\ UNCHANGED <<sim_files, sim_idf>>
            \/ /\ sim_expand' = "process_error"                    \* line 46 raises OSError
               /\ sim_files' = sim_files \cup {"in.idf"}
               /\ UNCHANGED sim_idf
            \/ /\ sim_expand' = "timeout"                          \* line 46 raises TimeoutExpired
               /\ \E wrote \in SUBSET {"expanded.idf"} :
                     sim_files' = sim_files \cup {"in.idf"} \cup wrote
               /\ UNCHANGED sim_idf
            \/ /\ sim_expand' \in {"exit0", "exit1"}               \* the process ended
               /\ \E wrote \in SUBSET {"expanded.idf"} :
                     sim_files' = sim_files \cup {"in.idf"} \cup wrote
               /\ sim_idf' = IF "expanded.idf" \in sim_files'      \* lines 54-56
                             THEN "expanded" ELSE "original"
    /\ sim_pc' = "energyplus"
    /\ UNCHANGED <<detVars, comfortVars, ratioVars, callVars, hvacVars, batchVars, sim_args, sim_invoked, sim_rc, sim_result>>

\* lines 62-76 and the handlers of lines 90-101: EnergyPlus is launched with
\* idf_path; it ends with a status, having written eplusout.csv or not, or
\* runs into the timeout, or cannot be started
SimEnergyPlus ==
    /\ sim_pc = "energyplus"
    /\ \/ /\ sim_invoked' = <<[idf |-> sim_idf, ended |-> "exit"]>>
          /\ \E rc \in {0, 1}, wrote \in SUBSET {"eplusout.csv"} :
                /\ sim_rc' = <<rc>>
                /\ sim_files' = sim_files \cup wrote
          /\ sim_pc' = "check"
          /\ UNCHANGED sim_result
       \/ /\ sim_invoked' = <<[idf |-> sim_idf, ended |-> "timeout"]>>
          /\ sim_result' = SimFailure("Simulation timeout")               \* lines 90-95
          /\ sim_pc' = "returned"
          /\ \E wrote \in SUBSET {"eplusout.csv"} : sim_files' = sim_files \cup wrote
          /\ UNCHANGED sim_rc
       \/ /\ sim_invoked' = <<[idf |-> sim_idf, ended |-> "oserror"]>>
          /\ sim_result' = SimFailure("OSError")                          \* lines 96-101
          /\ sim_pc' = "returned"
          /\ UNCHANGED <<sim_files, sim_rc>>
    /\ UNCHANGED <<detVars, comfortVars, ratioVars, callVars, hvacVars, batchVars, sim_args, sim_idf, sim_expand>>

\* lines 79-88
SimCheck ==
    /\ sim_pc = "check"
    /\ sim_result' = [success |-> "eplusout.csv" \in sim_files,
                      has_csv_output |-> "eplusout.csv" \in sim_files,
                      return_code |-> sim_rc[1]]
    /\ sim_pc' = "returned"
    /\ UNCHANGED <<detVars, comfortVars, ratioVars, callVars, hvacVars, batchVars, sim_args, sim_files, sim_idf, sim_expand,
                   sim_invoked, sim_rc>>

NextSim == SimMakeDirs \/ SimExpandObjects \/ SimEnergyPlus \/ SimCheck

SpecSim == InitSim /\ [][NextSim]_vars

\* Every step of the function ends: both subprocess.run calls carry a timeout
\* (lines 50 and 75), the other steps are local file operations.
SpecSimFair == SpecSim /\ WF_vars(NextSim)

(***************************************************************************)
(* modify_idf_hvac_schedule, idf_modification.py lines 12-140, with        *)
(* _create_hvac_schedule (242-328) and _apply_schedule_to_hvac_systems     *)
(* (331-381).  An IDF is the two lists of ideal-loads systems, each system *)
(* with its two availability schedule names, and the created schedule.     *)
(***************************************************************************)
MaxSystems == 2   \* most systems of one class in an IDF

\* lines 72-78
DefaultScheduleName(action) ==
    CASE action = "disable_cooling" -> "Cooling_Outage_Schedule"
      [] action = "disable_heating" -> "Heating_Outage_Schedule"
      [] action = "disable_all" -> "HVAC_Outage_Schedule"
      [] action = "enable_all" -> "HVAC_Enable_Schedule"
      [] OTHER -> "Custom_HVAC_Schedule"

\* lines 81-86: the end date as <<end_month, end_day>>
EndDate(end_month, end_day) ==
    IF end_month = <<>> THEN <<12, 31>>
    ELSE IF end_day = <<>>
         THEN <<end_month[1], <<31, 28, 31, 30, 31, 30, 31, 31, 30, 31, 30, 31>>[end_month[1]]>>
         ELSE <<end_month[1], end_day[1]>>

\* lines 277-279, the helper nested in _create_hvac_schedule
schedule_days_in_month == <<31, 28, 31, 30, 31, 30, 31, 31, 30, 31, 30, 31>>

schedule_to_day_of_year(month, day) == SumFirst(schedule_days_in_month, month - 1) + day

\* faulty variant: the end day itself is no longer part of the outage
ScheduleValueOpenEnd(action, current_doy, start_doy, end_doy) ==
    IF action = "enable_all" THEN 1
    ELSE IF current_doy < start_doy THEN 1
    ELSE IF start_doy <= current_doy /\ current_doy < end_doy THEN 0
    ELSE 1

\* lines 286-295 and 311-316: the value of the day current_doy
ScheduleValue(action, current_doy, start_doy, end_doy) ==
    IF action = "enable_all" THEN 1
    ELSE IF current_doy < start_doy THEN 1
    ELSE IF start_doy <= current_doy /\ current_doy <= end_doy THEN 0
    ELSE 1

\* lines 305-307: the (month, day) pairs in the order the two loops visit them
RECURSIVE LoopDays(_)
LoopDays(month) ==
    IF month > 12 THEN <<>>
    ELSE [day \in 1..schedule_days_in_month[month] |-> <<month, day>>] \o LoopDays(month + 1)

\* lines 298-326: the fields of the new Schedule:Compact, one entry
\* [month, day, value] for each group "Through: MM/DD", "For: AllDays",
\* "Until: 24:00", value
create_hvac_schedule(schedule_name, start_month, start_day, end_month, end_day, action) ==
    LET start_doy == schedule_to_day_of_year(start_month, start_day)
        end_doy == schedule_to_day_of_year(end_month, end_day)
        days == LoopDays(1)
    IN [Name |-> schedule_name,
        fields |-> [k \in 1..Len(days) |->
                      [month |-> days[k][1], day |-> days[k][2],
                       value |-> ScheduleValue(action,
                                     schedule_to_day_of_year(days[k][1], days[k][2]),
                                     start_doy, end_doy)]]]

\* lines 357-375: one system; the new system and what it adds to modified_count
ApplyToSystem(system, schedule_name, action) ==
    LET cooling == action \in {"disable_cooling", "disable_all"}
        heating == action \in {"disable_heating", "disable_all"}
        enable == action = "enable_all"
    IN [system |-> [cooling |-> IF cooling THEN schedule_name
                                ELSE IF enable THEN "" ELSE system.cooling,
                    heating |-> IF heating THEN schedule_name
                                ELSE IF enable THEN "" ELSE system.heating],
        count |-> (IF cooling THEN 1 ELSE 0) + (IF heating THEN 1 ELSE 0)
                    + (IF enable THEN 1 ELSE 0)]

RECURSIVE SumCounts(_, _)
SumCounts(applied, n) == IF n = 0 THEN 0 ELSE applied[n].count + SumCounts(applied, n - 1)

\* lines 346-381: HVACTemplate systems if there are any, else ZoneHVAC ones
apply_schedule_to_hvac_systems(idf, schedule_name, action) ==
    LET class == IF idf.templates # <<>> THEN "templates" ELSE "zonehvac"
        applied == [i \in 1..Len(idf[class]) |-> ApplyToSystem(idf[class][i], schedule_name, action)]
    IN [idf |-> [idf EXCEPT ![class] = [i \in 1..Len(applied) |-> applied[i].system]],
        modified_count |-> SumCounts(applied, Len(applied))]

\* lines 58-129: the saved IDF and the returned dictionary
modify_idf_hvac_schedule(idf, args) ==
    LET schedule_name == DefaultScheduleName(args.schedule_action)
        end == EndDate(args.end_month, args.end_day)
        schedule == create_hvac_schedule(schedule_name, args.start_month, args.start_day,
                                         end[1], end[2], args.schedule_action)
        applied == apply_schedule_to_hvac_systems(idf, schedule_name, args.schedule_action)
    IN [saved |-> [templates |-> applied.idf.templates,
                   zonehvac |-> applied.idf.zonehvac,
                   schedule |-> schedule],
        result |-> [success |-> TRUE,
                    schedule_name |-> schedule_name,
                    schedule_action |-> args.schedule_action,
                    start_date |-> <<args.start_month, args.start_day>>,
                    end_date |-> end,
                    systems_modified |-> applied.modified_count]]

HvacActions == {"disable_cooling", "disable_heating", "disable_all", "enable_all", "custom"}

HvacArgs ==
    { [schedule_action |-> a, start_month |-> s[1], start_day |-> s[2],
       end_month |-> em, end_day |-> ed] :
        a \in HvacActions,
        s \in {<<1, 1>>, <<2, 28>>, <<7, 15>>, <<12, 31>>},
        em \in {<<>>, <<2>>, <<7>>, <<12>>},
        ed \in {<<>>, <<10>>, <<20>>} }

\* a system as the input files have it: both availability fields name a
\* schedule of the file
InputSystem == [cooling |-> "Always_On", heating |-> "Always_On"]

HvacIdfs ==
    { [templates |-> [i \in 1..t |-> InputSystem], zonehvac |-> [i \in 1..z |-> InputSystem]] :
        t \in 0..MaxSystems, z \in 0..1 }

InitHvac ==
    /\ DetectorIdle
    /\ ComfortIdle
    /\ RatioIdle
    /\ CallsIdle
    /\ SimIdle
    /\ BatchIdle
    /\ hvac_args \in HvacArgs
    /\ hvac_idf \in HvacIdfs
    /\ hvac_out = <<>>
    /\ hvac_result = NotCalled

\* the whole function: it saves the modified IDF and returns the success
\* dictionary, or an exception of eppy or of the file system (IDF(idf_path),
\* os.makedirs, idf.save) ends in the handler of lines 131-140
ModifyIdfHvacSchedule ==
    /\ hvac_result = NotCalled
    /\ \/ LET r == modify_idf_hvac_schedule(hvac_idf, hvac_args)
          IN /\ hvac_out' = <<r.saved>>
             /\ hvac_result' = r.result
       \/ /\ hvac_out' = <<>>
          /\ hvac_result' = [success |-> FALSE, error |-> "Exception"]
    /\ UNCHANGED <<detVars, comfortVars, ratioVars, callVars, simVars, batchVars, hvac_args, hvac_idf>>

NextHvac == ModifyIdfHvacSchedule

SpecHvac == InitHvac /\ [][NextHvac]_vars

(***************************************************************************)
(* batch_simulate_buildings, simulation_tools.py lines 104-175, and        *)
(* batch_modify_idf_hvac_schedule, idf_modification.py lines 143-239.      *)
(* File names are numbers whose order stands for the order of the strings. *)
(* What happens to one building is the callee's business: it returns a     *)
(* dictionary with success true or false (both callees catch Exception).   *)
(***************************************************************************)
MaxFiles == 3   \* most entries of idf_directory

\* simulation_tools.py lines 130-133, idf_modification.py line 182: the
\* names with the .idf suffix, in the order of the listing
RECURSIVE IdfNames(_)
IdfNames(listing) ==
    IF listing = <<>> THEN <<>>
    ELSE (IF Head(listing).ext = "idf" THEN <<Head(listing).name>> ELSE <<>>)
            \o IdfNames(Tail(listing))

\* sorted(...) of a list of distinct names
RECURSIVE SortedNames(_)
SortedNames(names) ==
    IF names = {} THEN <<>>
    ELSE LET least == CHOOSE n \in names : \A m \in names : n <= m
         IN <<least>> \o SortedNames(names \ {least})

\* idf_files[:max_buildings] for max_buildings >= 0
FirstN(files, n) == SubSeq(files, 1, IF n < Len(files) THEN n ELSE Len(files))

\* simulation_tools.py lines 135-136 (if max_buildings:) and
\* idf_modification.py lines 184-185 (if max_buildings is not None:)
Truncate(fn, files, max_buildings) ==
    IF fn = "simulate"
    THEN IF max_buildings # <<>> /\ max_buildings[1] # 0
         THEN FirstN(files, max_buildings[1]) ELSE files
    ELSE IF max_buildings # <<>>
         THEN FirstN(files, max_buildings[1]) ELSE files

RECURSIVE Listings(_)
\* the listings of at most n entries with distinct names, in any order
Listings(n) ==
    IF n = 0 THEN {<<>>}
    ELSE Listings(n - 1) \cup
         { Append(l, [name |-> f, ext |-> e]) :
             l \in { k \in Listings(n - 1) : Len(k) = n - 1 },
             f \in 1..MaxFiles, e \in {"idf", "txt"} }

DistinctNames(listing) ==
    \A i, j \in 1..Len(listing) : listing[i].name = listing[j].name => i = j

InitBatch ==
    /\ DetectorIdle
    /\ ComfortIdle
    /\ RatioIdle
    /\ CallsIdle
    /\ SimIdle
    /\ HvacIdle
    /\ batch_args \in { [fn |-> f, max_buildings |-> m] :
                           f \in {"simulate", "modify"},
                           m \in {<<>>} \cup { <<n>> : n \in 0..MaxFiles } }
    /\ batch_dir \in { l \in Listings(MaxFiles) : DistinctNames(l) }
    /\ batch_pc = "start"
    /\ batch_files = <<>>
    /\ batch_i = 0
    /\ batch_results = <<>>
    /\ batch_counts = [success |-> 0, failed |-> 0]
    /\ batch_result = NotCalled

\* simulation_tools.py lines 128-139, idf_modification.py lines 180-194:
\* list, sort, truncate, set up the counters.  os.listdir and os.makedirs
\* may raise, which ends in the handler (171-175, 232-239).
BatchList ==
    /\ batch_pc = "start"
    /\ \/ /\ batch_files' = Truncate(batch_args.fn,
                                       SortedNames(Range(IdfNames(batch_dir))),
                                       batch_args.max_buildings)
          /\ batch_pc' = "loop"
          /\ UNCHANGED batch_result
       \/ /\ batch_result' = [success |-> FALSE, error |-> "OSError"]
          /\ batch_pc' = "returned"
          /\ UNCHANGED batch_files
    /\ UNCHANGED <<detVars, comfortVars, ratioVars, callVars, simVars, hvacVars, batch_args, batch_dir,
                   batch_i, batch_results, batch_counts>>

\* faulty variant: a building that failed leaves no entry in results
BatchBuildingDropsFailures ==
    /\ batch_pc = "loop"
    /\ batch_i < Len(batch_files)
    /\ batch_i' = batch_i + 1
    /\ \E ok \in BOOLEAN :
         /\ batch_results' = IF ok
                              THEN Append(batch_results,
                                      [file |-> batch_files[batch_i'], success |-> ok,
                                       index |-> batch_i', total |-> Len(batch_files)])
                              ELSE batch_results
         /\ batch_counts' = IF ok
                             THEN [batch_counts EXCEPT !.success = @ + 1]
                             ELSE [batch_counts EXCEPT !.failed = @ + 1]
    /\ UNCHANGED <<detVars, comfortVars, ratioVars, callVars, simVars, hvacVars, batch_args, batch_dir,
                   batch_pc, batch_files, batch_result>>

\* simulation_tools.py lines 141-160, idf_modification.py lines 196-221:
\* one pass of the loop.  The callee returns success or failure; the result
\* gets its index and the total and is appended; the counters follow
\* (batch_simulate_buildings keeps no failure counter: it subtracts at
\* line 166, see BatchReturn).
BatchBuilding ==
    /\ batch_pc = "loop"
    /\ batch_i < Len(batch_files)
    /\ batch_i' = batch_i + 1
    /\ \E ok \in BOOLEAN :
         /\ batch_results' = Append(batch_results,
                                    [file |-> batch_files[batch_i'], success |-> ok,
                                     index |-> batch_i', total |-> Len(batch_files)])
         /\ batch_counts' = IF ok
                             THEN [batch_counts EXCEPT !.success = @ + 1]
                             ELSE IF batch_args.fn = "modify"
                                  THEN [batch_counts EXCEPT !.failed = @ + 1]
                                  ELSE batch_counts
    /\ UNCHANGED <<detVars, comfortVars, ratioVars, callVars, simVars, hvacVars, batch_args, batch_dir,
                   batch_pc, batch_files, batch_result>>

\* simulation_tools.py lines 162-169, idf_modification.py lines 223-230
BatchReturn ==
    /\ batch_pc = "loop"
    /\ batch_i = Len(batch_files)
    /\ batch_result' = [success |-> TRUE,
                        total_buildings |-> Len(batch_files),
                        successful |-> batch_counts.success,
                        failed |-> IF batch_args.fn = "simulate"
                                   THEN Len(batch_files) - batch_counts.success
                                   ELSE batch_counts.failed,
                        results |-> batch_results]
    /\ batch_pc' = "returned"
    /\ UNCHANGED <<detVars, comfortVars, ratioVars, callVars, simVars, hvacVars, batch_args, batch_dir,
                   batch_files, batch_i, batch_results, batch_counts>>

NextBatch == BatchList \/ BatchBuilding \/ BatchReturn

SpecBatch == InitBatch /\ [][NextBatch]_vars

(***************************************************************************)
(* The breach ratio as the code computes it, in IEEE 754 binary64          *)
(* (thermal_comfort_analysis.py lines 157-160: pandas float64 arithmetic,  *)
(* round to nearest, ties to even).  A positive binary64 number is         *)
(* [m |-> its 53 mantissa bits, most significant first, e |-> the exponent *)
(* of the last bit]: its value is m * 2^e.  The numbers that occur lie     *)
(* between 2^-10 and 2^10, far from overflow and from the subnormals.      *)
(***************************************************************************)
Zero64 == [m |-> <<>>, e |-> 0]

Zeros(n) == [i \in 1..n |-> 0]

\* the binary digits of a natural number, most significant first
RECURSIVE IntBits(_)
IntBits(n) == IF n = 0 THEN <<>> ELSE Append(IntBits(n \div 2), n % 2)

\* bits without its leading zeros
StripZeros(bits) ==
    IF \A i \in 1..Len(bits) : bits[i] = 0 THEN <<>>
    ELSE LET first == CHOOSE i \in 1..Len(bits) :
                          bits[i] = 1 /\ \A j \in 1..(i - 1) : bits[j] = 0
         IN SubSeq(bits, first, Len(bits))

\* bits + 1, of the same length, for bits that are not all ones
IncBits(bits) ==
    LET last == CHOOSE i \in 1..Len(bits) :
                    bits[i] = 0 /\ \A j \in (i + 1)..Len(bits) : bits[j] = 1
    IN [i \in 1..Len(bits) |-> IF i < last THEN bits[i] ELSE IF i = last THEN 1 ELSE 0]

\* The binary64 number nearest to bits * 2^e (+ something below the last bit
\* when sticky), ties to even.  A value with fewer than 54 significant bits
\* is exact.
RoundBits(bits, e, sticky) ==
    LET sig == StripZeros(bits)
        n == Len(sig)
    IN IF n = 0 THEN Zero64
       ELSE IF n <= 53 THEN [m |-> sig \o Zeros(53 - n), e |-> e - (53 - n)]
       ELSE LET keep == SubSeq(sig, 1, 53)
                guard == sig[54]
                below == sticky \/ \E i \in 55..n : sig[i] = 1
                up == guard = 1 /\ (below \/ keep[53] = 1)
            IN IF ~up THEN [m |-> keep, e |-> e + (n - 53)]
               ELSE IF \A i \in 1..53 : keep[i] = 1
                    THEN [m |-> <<1>> \o Zeros(52), e |-> e + (n - 53) + 1]
                    ELSE [m |-> IncBits(keep), e |-> e + (n - 53)]

(* The arithmetic on mantissas works on base-256 digits, eight bits each. *)
PlaceValues == <<128, 64, 32, 16, 8, 4, 2, 1>>

\* the base-256 digits of a bit string, padded with zeros on the left
ToDigits(bits) ==
    LET pad == (8 - (Len(bits) % 8)) % 8
        b == Zeros(pad) \o bits
    IN [d \in 1..(Len(b) \div 8) |->
            b[8 * d - 7] * 128 + b[8 * d - 6] * 64 + b[8 * d - 5] * 32 + b[8 * d - 4] * 16
              + b[8 * d - 3] * 8 + b[8 * d - 2] * 4 + b[8 * d - 1] * 2 + b[8 * d]]

\* the bits of a string of base-256 digits
ToBits(digits) ==
    [i \in 1..(8 * Len(digits)) |->
        (digits[((i - 1) \div 8) + 1] \div PlaceValues[((i - 1) % 8) + 1]) % 2]

\* long division of a digit string by a small positive integer: the quotient
\* digits (as many as the dividend has) and the remainder
RECURSIVE LongDiv(_, _, _, _, _)
LongDiv(digits, n, i, r, acc) ==
    IF i > Len(digits) THEN [q |-> acc, r |-> r]
    ELSE LET t == 256 * r + digits[i]
         IN LongDiv(digits, n, i + 1, t % n, Append(acc, t \div n))

\* bits below the binary point carried through a division before rounding
DivGuardBits == 64

\* float64(c) / float64(n) for naturals c and n > 0
F64Quotient(c, n) ==
    LET d == LongDiv(ToDigits(IntBits(c) \o Zeros(DivGuardBits)), n, 1, 0, <<>>)
    IN RoundBits(ToBits(d.q), 0 - DivGuardBits, d.r # 0)

\* x / float64(n) for a natural n > 0
F64DivInt(x, n) ==
    IF x = Zero64 THEN Zero64
    ELSE LET d == LongDiv(ToDigits(x.m \o Zeros(DivGuardBits)), n, 1, 0, <<>>)
         IN RoundBits(ToBits(d.q), x.e - DivGuardBits, d.r # 0)

\* the digits of digits * k for a small natural k
RECURSIVE MulDigits(_, _, _, _, _)
MulDigits(digits, k, i, carry, acc) ==
    IF i = 0 THEN <<carry>> \o acc
    ELSE LET t == digits[i] * k + carry
         IN MulDigits(digits, k, i - 1, t \div 256, <<t % 256>> \o acc)

\* x * float64(k) for a natural k < 256
F64MulInt(x, k) ==
    IF x = Zero64 \/ k = 0 THEN Zero64
    ELSE LET d == ToDigits(x.m)
         IN RoundBits(ToBits(MulDigits(d, k, Len(d), 0, <<>>)), x.e, FALSE)

\* the digits of a + b, for digit strings of the same length
RECURSIVE AddDigits(_, _, _, _, _)
AddDigits(a, b, i, carry, acc) ==
    IF i = 0 THEN <<carry>> \o acc
    ELSE LET t == a[i] + b[i] + carry
         IN AddDigits(a, b, i - 1, t \div 256, <<t % 256>> \o acc)

\* x + y
F64Add(x, y) ==
    IF x = Zero64 THEN y
    ELSE IF y = Zero64 THEN x
    ELSE LET e == IF x.e < y.e THEN x.e ELSE y.e
             a == x.m \o Zeros(x.e - e)
             b == y.m \o Zeros(y.e - e)
             n == IF Len(a) > Len(b) THEN Len(a) ELSE Len(b)
             da == ToDigits(Zeros(n - Len(a)) \o a)
             db == ToDigits(Zeros(n - Len(b)) \o b)
         IN RoundBits(ToBits(AddDigits(da, db, Len(da), 0, <<>>)), e, FALSE)

\* faulty variant: the share of the event hours as a fraction, not in percent
BuildingRatioAsFraction(count, rows) == F64Quotient(count, rows)

\* line 157: baseline_breach.sum(axis=0) / len(baseline_event) * 100, for
\* one building
BuildingRatio(count, rows) == F64MulInt(F64Quotient(count, rows), 100)

\* the sum of the first n ratios, added in column order from 0.0
RECURSIVE F64SumRatios(_, _, _)
F64SumRatios(counts, rows, n) ==
    IF n = 0 THEN Zero64
    ELSE F64Add(F64SumRatios(counts, rows, n - 1), BuildingRatio(counts[n], rows))

\* line 160: baseline_breach_ratio.mean(), the sum divided by the number of
\* buildings
MeanOfRatios(counts, rows) ==
    F64DivInt(F64SumRatios(counts, rows, Len(counts)), Len(counts))

MaxEventRows == 4      \* most rows of the event window
MaxBuildingCols == 3   \* most building columns

\* a non-empty event window, at least one building, and for every building
\* the number of event hours above the threshold
InitRatio ==
    /\ DetectorIdle
    /\ ComfortIdle
    /\ CallsIdle
    /\ SimIdle
    /\ HvacIdle
    /\ BatchIdle
    /\ ratio_rows \in 1..MaxEventRows
    /\ ratio_counts \in UNION { [1..b -> 0..ratio_rows] : b \in 1..MaxBuildingCols }
    /\ ratio_avg = NotCalled

\* lines 157 and 160
AverageBreachRatio ==
    /\ ratio_avg = NotCalled
    /\ ratio_avg' = MeanOfRatios(ratio_counts, ratio_rows)
    /\ UNCHANGED <<detVars, comfortVars, callVars, simVars, hvacVars, batchVars,
                   ratio_rows, ratio_counts>>

NextRatio == AverageBreachRatio

SpecRatio == InitRatio /\ [][NextRatio]_vars

(***************************************************************************)
(* Vocabulary of the detector's properties, stated on the input file and   *)
(* the returned dictionary.                                                *)
(***************************************************************************)
Fields == {"month", "day", "hour", "temp"}

\* every field of every record is a number: the file is a sequence of HourlySamples
WellFormed(rows) == \A i \in 1..Len(rows) : \A fld \in Fields : rows[i][fld].k = "num"

DetDone == det_pc = "done"

DetOk == det_pc = "done" /\ det_result.success

\* the daily aggregates of the input in ascending day-of-year order
SortedDays == AllDays(ParseDates(epw), ParseTemps(epw))

WindowStarts(days) == 1..(Len(days) - top_n + 1)

\* the top_n aggregates from position i on have contiguous day-of-year values
ValidWindowAt(days, i) ==
    \A j \in 1..(top_n - 1) : days[i + j][1] = days[i + j - 1][1] + 1

ExistsValidWindow(days) == \E i \in WindowStarts(days) : ValidWindowAt(days, i)

MeanAt(days, i) == NpMean([j \in 1..top_n |-> days[i + j - 1][4]])

Returned == det_result.top_hottest_days

ReturnedDoy(i) == to_day_of_year(Returned[i].month, Returned[i].day)

\* the returned list is the window of days that starts at position i
ReturnedIsWindow(days, i) ==
    /\ Len(Returned) = top_n
    /\ \A j \in 1..top_n :
         /\ Returned[j].month = days[i + j - 1][2]
         /\ Returned[j].day = days[i + j - 1][3]
         /\ Returned[j].average_temperature = days[i + j - 1][4]

\* the detector ran on a non-empty file of HourlySamples
RanOnSamples == det_pc = "done" /\ epw # <<>> /\ WellFormed(epw)

(***************************************************************************)
(* C1. Contiguity: every window returned with success = true has top_n     *)
(* days whose day-of-year values are contiguous, doy[i+1] = doy[i] + 1.    *)
(* The code violates it: with no contiguous window it returns the first    *)
(* top_n days of the file.                                                 *)
(***************************************************************************)
C1_Contiguity ==
    (DetOk /\ WellFormed(epw)) =>
        /\ Len(Returned) = top_n
        /\ \A i \in 1..(top_n - 1) : ReturnedDoy(i + 1) = ReturnedDoy(i) + 1

(***************************************************************************)
(* C2. Maximality: whenever a contiguous window of top_n days exists, the  *)
(* returned window is a contiguous one and no contiguous window of the     *)
(* input has a higher mean of daily means.                                 *)
(***************************************************************************)
C2_Maximality ==
    RanOnSamples =>
        LET days == SortedDays
        IN  ExistsValidWindow(days) =>
              /\ det_result.success
              /\ \E k \in WindowStarts(days) :
                   /\ ValidWindowAt(days, k)
                   /\ ReturnedIsWindow(days, k)
                   /\ det_result.sequence_average_temperature = MeanAt(days, k)
                   /\ \A i \in WindowStarts(days) :
                        ValidWindowAt(days, i) => ~FGt(MeanAt(days, i), MeanAt(days, k))

\* a gap-spanning run of top_n days is hotter than the contiguous window returned
C2_Witness ==
    /\ RanOnSamples
    /\ det_result.success
    /\ LET days == SortedDays
       IN  /\ ExistsValidWindow(days)
           /\ \E i \in WindowStarts(days) :
                /\ ~ValidWindowAt(days, i)
                /\ FGt(MeanAt(days, i), det_result.sequence_average_temperature)

(***************************************************************************)
(* C3. Tie-break: among the contiguous windows that share the maximum      *)
(* mean, the one with the earliest start day-of-year is returned.          *)
(***************************************************************************)
C3_EarliestOnTie ==
    RanOnSamples =>
        LET days == SortedDays
        IN  ExistsValidWindow(days) =>
              /\ det_result.success
              /\ \A i \in WindowStarts(days) :
                   (/\ ValidWindowAt(days, i)
                    /\ ~FGt(det_result.sequence_average_temperature, MeanAt(days, i)))
                       => ReturnedDoy(1) <= days[i][1]

\* two different contiguous windows share the maximum mean; the earlier is returned
C3_Witness ==
    /\ RanOnSamples
    /\ det_result.success
    /\ LET days == SortedDays
       IN  \E i, k \in WindowStarts(days) :
             /\ i < k /\ ValidWindowAt(days, i) /\ ValidWindowAt(days, k)
             /\ MeanAt(days, i) = MeanAt(days, k)
             /\ MeanAt(days, i) = det_result.sequence_average_temperature
             /\ ReturnedIsWindow(days, i)

(***************************************************************************)
(* C4. With no run of top_n contiguous days in the input the call fails    *)
(* (success = false) and returns no window.  The code violates it when     *)
(* the file holds at least top_n days.                                     *)
(***************************************************************************)
C4_NoWindowFails ==
    RanOnSamples => (~ExistsValidWindow(SortedDays) => ~det_result.success)

(***************************************************************************)
(* C5. sequence_average_temperature of a successful result is the mean of  *)
(* the average_temperature values of the days returned.  The code violates *)
(* it in the case of C4: the value is the initial -999.                    *)
(***************************************************************************)
C5_MeanOfReturned ==
    (DetOk /\ WellFormed(epw)) =>
        det_result.sequence_average_temperature
            = NpMean([i \in 1..Len(Returned) |-> Returned[i].average_temperature])

(***************************************************************************)
(* C6. The returned days are in ascending day-of-year order with rank i    *)
(* at position i, earliest_hot_day is the (month, day) of the rank-1       *)
(* entry, whose day-of-year is the smallest of the window, and             *)
(* get_hottest_day_date returns that (month, day).                         *)
(***************************************************************************)
C6_WindowOrder ==
    /\ (DetOk /\ WellFormed(epw)) =>
         /\ \A i \in 1..Len(Returned) : Returned[i].rank = i
         /\ \A i, j \in 1..Len(Returned) : i < j => ReturnedDoy(i) <= ReturnedDoy(j)
         /\ det_result.earliest_hot_day.month = Returned[1].month
         /\ det_result.earliest_hot_day.day = Returned[1].day
         /\ \A i \in 1..Len(Returned) :
              to_day_of_year(det_result.earliest_hot_day.month,
                             det_result.earliest_hot_day.day) <= ReturnedDoy(i)
    /\ (DetOk /\ WellFormed(epw) /\ date_pc = "done") =>
         date_result = <<Returned[1].month, Returned[1].day>>
    /\ (DetDone /\ ~det_result.success /\ date_pc = "done") => date_result = <<>>

\* a returned window that is not in descending temperature order: rank 1 is cooler than rank 2
C6_Witness ==
    /\ DetOk /\ WellFormed(epw) /\ date_pc = "done"
    /\ Len(Returned) >= 2
    /\ FGt(Returned[2].average_temperature, Returned[1].average_temperature)
    /\ date_result = <<Returned[1].month, Returned[1].day>>

(***************************************************************************)
(* C7. Daily aggregation: every (month, day) of the samples has exactly    *)
(* one aggregate; its mean is the mean and its maximum the maximum of all  *)
(* samples with that key, wherever they stand in the file, and the         *)
(* maximum is at least the mean.  The days of a returned window carry      *)
(* these values.                                                           *)
(***************************************************************************)
SampleKeys == { <<epw[i].month.v, epw[i].day.v>> : i \in 1..Len(epw) }

SamplesOf(key) == { i \in 1..Len(epw) : <<epw[i].month.v, epw[i].day.v>> = key }

RECURSIVE SumTemps(_)
SumTemps(I) ==
    IF I = {} THEN 0
    ELSE LET i == CHOOSE x \in I : TRUE
         IN  epw[i].temp.v + SumTemps(I \ {i})

KeyMean(key) == Rat(SumTemps(SamplesOf(key)), Cardinality(SamplesOf(key)))

KeyMax(key) ==
    FromInt(CHOOSE m \in { epw[i].temp.v : i \in SamplesOf(key) } :
                \A i \in SamplesOf(key) : epw[i].temp.v <= m)

C8_MalformedRejected ==
    (DetDone /\ ~WellFormed(epw)) => ~det_result.success

(***************************************************************************)
(* C9. When the column sets of the baseline and the modified table differ, *)
(* the comfort analysis ends with the column mismatch error and no breach  *)
(* result exists for any threshold.                                        *)
(***************************************************************************)
ColumnMismatchError == "ValueError: Column mismatch between baseline and modified files"

C9_ColumnMismatchFails ==
    (comfort_pc \in {"loaded", "done", "failed"}
        /\ Range(baseline_csv.columns) # Range(modified_csv.columns)) =>
        /\ comfort_pc = "failed"
        /\ comfort_error = ColumnMismatchError
        /\ threshold_results = NotCalled

\* the load has run on tables whose column sets differ and has raised
C9_Witness ==
    /\ comfort_pc = "failed"
    /\ comfort_error = ColumnMismatchError
    /\ Range(baseline_csv.columns) # Range(modified_csv.columns)
    /\ \E c \in Range(baseline_csv.columns) : c \notin Range(modified_csv.columns)

(***************************************************************************)
(* C10. When the two tables have the same columns and different row        *)
(* counts, the comfort analysis ends with an error and produces no breach  *)
(* results.  The code violates it when the modified table is the shorter.  *)
(***************************************************************************)
C10_RowMismatchFails ==
    (baseline_csv.columns = modified_csv.columns
        /\ Len(baseline_csv.rows) # Len(modified_csv.rows)) =>
        /\ comfort_pc # "done"
        /\ threshold_results = NotCalled

(***************************************************************************)
(* Vocabulary of the comfort properties, stated on the two input tables,   *)
(* the start hour, the thresholds given and the returned mapping.          *)
(***************************************************************************)
ComfortDone == comfort_pc = "done"

\* the rows of a table that lie in the event window
EventRows(table) == { i \in 1..Len(table.rows) : table.rows[i]["Hour"] >= start_hour }

Buildings == Range(baseline_csv.columns) \ {"Hour"}

\* hours of the event window in which building c is above t
HoursAbove(table, c, t) == Cardinality({ i \in EventRows(table) : table.rows[i][c] > t })

RECURSIVE SumRatios(_, _, _)
SumRatios(table, cs, t) ==
    IF cs = {} THEN FromInt(0)
    ELSE LET c == CHOOSE x \in cs : TRUE
         IN  FAdd(Rat(100 * HoursAbove(table, c, t), Cardinality(EventRows(table))),
                  SumRatios(table, cs \ {c}, t))

\* mean over the buildings of the percentage of event hours above t
MeanBreachRatio(table, t) == FDivInt(SumRatios(table, Buildings, t), Cardinality(Buildings))

(***************************************************************************)
(* C11. For every label with a numeric threshold t, the baseline and the   *)
(* modified breach ratio are the mean over the buildings of 100 * (event   *)
(* hours with temperature strictly above t) / (event hours) of the         *)
(* respective table; a temperature equal to t is no breach.                *)
(***************************************************************************)
C11_BreachRatio ==
    ComfortDone =>
        \A label \in DOMAIN threshold_results :
            LET r == threshold_results[label]
            IN  r.threshold_temp.k = "num" =>
                  /\ EventRows(baseline_csv) # {} =>
                        r.baseline_breach_ratio =
                            MeanBreachRatio(baseline_csv, r.threshold_temp.v)
                  /\ EventRows(modified_csv) # {} =>
                        r.modified_breach_ratio =
                            MeanBreachRatio(modified_csv, r.threshold_temp.v)

\* an event window of the modified table holds a temperature equal to the
\* threshold and one above it, and the ratio returned lies between 0 and 100
C11_Witness ==
    /\ ComfortDone
    /\ \E label \in DOMAIN threshold_results :
         LET r == threshold_results[label]
         IN  /\ r.threshold_temp.k = "num"
             /\ \E i \in EventRows(modified_csv), c \in Buildings :
                    modified_csv.rows[i][c] = r.threshold_temp.v
             /\ \E i \in EventRows(modified_csv), c \in Buildings :
                    modified_csv.rows[i][c] > r.threshold_temp.v
             /\ FGt(r.modified_breach_ratio, FromInt(0))
             /\ FGt(FromInt(100), r.modified_breach_ratio)

\* the table with the temperature of building c in row i replaced by v
WithTemp(table, i, c, v) == [table EXCEPT !.rows[i][c] = v]

\* the mapping the two calls of the handler return for the tables b and m and
\* the thresholds thr
ComfortResults(b, m, thr) ==
    LET fr == load_hourly_temperature_data(b, m)
    IN  analyse_comfort_thresholds(fr.baseline_df, fr.modified_df, fr.building_cols,
                                   start_hour, thr).results

\* temperatures below and above every threshold in use
ProbeTemps == {20, 40}

\* some numeric threshold lies at or above the temperature old and below new
CrossesThreshold(old, new) ==
    \E label \in DOMAIN threshold_results :
        LET t == threshold_results[label].threshold_temp
        IN  t.k = "num" /\ old <= t.v /\ t.v < new

(***************************************************************************)
(* C12. The results depend on exactly the rows with Hour >= start_hour:    *)
(* replacing any temperature of a row with Hour < start_hour, in the       *)
(* baseline or in the modified table, leaves the whole mapping unchanged,  *)
(* and lifting a temperature of an event row across a threshold changes    *)
(* the mapping.                                                            *)
(***************************************************************************)
C12_EventWindowOnly ==
    ComfortDone =>
        /\ \A i \in (1..Len(baseline_csv.rows)) \ EventRows(baseline_csv),
              c \in Buildings, v \in ProbeTemps :
                ComfortResults(WithTemp(baseline_csv, i, c, v), modified_csv, thresholds)
                    = threshold_results
        /\ \A i \in (1..Len(modified_csv.rows)) \ EventRows(modified_csv),
              c \in Buildings, v \in ProbeTemps :
                ComfortResults(baseline_csv, WithTemp(modified_csv, i, c, v), thresholds)
                    = threshold_results
        /\ \A i \in EventRows(baseline_csv), c \in Buildings, v \in ProbeTemps :
                CrossesThreshold(baseline_csv.rows[i][c], v) =>
                    ComfortResults(WithTemp(baseline_csv, i, c, v), modified_csv, thresholds)
                        # threshold_results
        /\ \A i \in EventRows(modified_csv), c \in Buildings, v \in ProbeTemps :
                CrossesThreshold(modified_csv.rows[i][c], v) =>
                    ComfortResults(baseline_csv, WithTemp(modified_csv, i, c, v), thresholds)
                        # threshold_results

\* both tables have rows before and inside the event window, and a modified
\* temperature before the event lies above a threshold that no event hour breaches
C12_Witness ==
    /\ ComfortDone
    /\ EventRows(baseline_csv) # {}
    /\ EventRows(modified_csv) # {}
    /\ (1..Len(baseline_csv.rows)) \ EventRows(baseline_csv) # {}
    /\ \E label \in DOMAIN threshold_results :
         LET r == threshold_results[label]
         IN  /\ r.threshold_temp.k = "num"
             /\ r.modified_breach_ratio = FromInt(0)
             /\ \E i \in (1..Len(modified_csv.rows)) \ EventRows(modified_csv),
                   c \in Buildings : modified_csv.rows[i][c] > r.threshold_temp.v

\* buildings of row i above t
AboveCount(table, i, t) == Cardinality({ c \in Buildings : table.rows[i][c] > t })

\* event hours of the modified table in which the buildings above t number
\* strictly more than half of all buildings
MajorityHours(t) ==
    { i \in EventRows(modified_csv) :
        FGt(FromInt(AboveCount(modified_csv, i, t)), Rat(Cardinality(Buildings), 2)) }

(***************************************************************************)
(* C13. For every label, first_breach_time and hours_after_event_start are *)
(* both null or both set.  For a numeric threshold t they are set exactly  *)
(* when some event hour of the modified table has strictly more than half  *)
(* of the buildings above t, and first_breach_time is then the time of the *)
(* first such hour; the baseline table plays no part.                      *)
(***************************************************************************)
C13_MajorityBreach ==
    ComfortDone =>
        \A label \in DOMAIN threshold_results :
            LET r == threshold_results[label]
                t == r.threshold_temp
            IN  /\ (r.first_breach_time = <<>>) <=> (r.hours_after_event_start = <<>>)
                /\ t.k = "num" =>
                     IF MajorityHours(t.v) = {}
                     THEN r.first_breach_time = <<>>
                     ELSE r.first_breach_time = <<SetMin(MajorityHours(t.v)) - 1>>

\* the first event hour has exactly half of the modified buildings above the
\* threshold, a later hour has more and is the one returned, and the baseline
\* has its majority at an earlier hour
C13_Witness ==
    /\ ComfortDone
    /\ \E label \in DOMAIN threshold_results :
         LET r == threshold_results[label]
             t == r.threshold_temp
         IN  /\ t.k = "num"
             /\ start_hour \in EventRows(modified_csv)
             /\ 2 * AboveCount(modified_csv, start_hour, t.v) = Cardinality(Buildings)
             /\ r.first_breach_time # <<>>
             /\ r.first_breach_time[1] > start_hour - 1
             /\ \E i \in EventRows(baseline_csv) :
                    /\ i - 1 < r.first_breach_time[1]
                    /\ 2 * AboveCount(baseline_csv, i, t.v) > Cardinality(Buildings)

(***************************************************************************)
(* C14. With start_hour between 1 and the number of hours, a set           *)
(* hours_after_event_start is an integer >= 0 and equals the Hour of the   *)
(* first majority-breach row of the modified table minus start_hour: 0     *)
(* for a breach in the first event hour, 1 in the second.                  *)
(***************************************************************************)
C14_HoursAfterEventStart ==
    (ComfortDone /\ start_hour \in 1..Len(baseline_csv.rows)) =>
        \A label \in DOMAIN threshold_results :
            LET r == threshold_results[label]
                t == r.threshold_temp
            IN  (t.k = "num" /\ MajorityHours(t.v) # {}) =>
                  /\ r.hours_after_event_start # <<>>
                  /\ r.hours_after_event_start[1] \in Nat
                  /\ r.hours_after_event_start[1] =
                        modified_csv.rows[SetMin(MajorityHours(t.v))]["Hour"] - start_hour

\* the event starts after the first row and the majority breach falls into
\* the second event hour: 1 is returned
C14_Witness ==
    /\ ComfortDone
    /\ start_hour \in 2..Len(baseline_csv.rows)
    /\ \E label \in DOMAIN threshold_results :
         LET r == threshold_results[label]
         IN  /\ r.threshold_temp.k = "num"
             /\ MajorityHours(r.threshold_temp.v) # {}
             /\ SetMin(MajorityHours(r.threshold_temp.v)) = start_hour + 1
             /\ r.hours_after_event_start = <<1>>

(***************************************************************************)
(* C15. When no row of the tables has Hour >= start_hour, the analysis     *)
(* ends with an error and returns no breach result.  The code violates     *)
(* it: it returns a result per label whose ratios are NaN.                 *)
(***************************************************************************)
C15_EmptyWindowFails ==
    (/\ baseline_csv.columns = modified_csv.columns
     /\ "Hour" \in Range(baseline_csv.columns)
     /\ EventRows(baseline_csv) = {}
     /\ EventRows(modified_csv) = {}) =>
        /\ comfort_pc # "done"
        /\ threshold_results = NotCalled

(***************************************************************************)
(* C16. When the thresholds given hold a value that is not a number, the   *)
(* analysis ends with an error and returns no result for any label.  The   *)
(* code violates it for a null value: the label is evaluated as never      *)
(* breached and every label gets a result.                                 *)
(***************************************************************************)
C16_BadThresholdFails ==
    (/\ thresholds # <<>>
     /\ \E label \in DOMAIN thresholds[1] : thresholds[1][label].k # "num") =>
        /\ comfort_pc # "done"
        /\ threshold_results = NotCalled

\* z is the difference x - y of two numbers
IsDifference(z, x, y) ==
    /\ ~IsNaN(z)
    /\ z[1] * x[2] * y[2] = (x[1] * y[2] - y[1] * x[2]) * z[2]

(***************************************************************************)
(* C17. For every label, increase is modified_breach_ratio minus           *)
(* baseline_breach_ratio; it is negative when the modified ratio is the    *)
(* smaller one, and NaN when one of the ratios is.                         *)
(***************************************************************************)
C17_IncreaseIsDifference ==
    ComfortDone =>
        \A label \in DOMAIN threshold_results :
            LET r == threshold_results[label]
            IN  IF IsNaN(r.modified_breach_ratio) \/ IsNaN(r.baseline_breach_ratio)
                THEN IsNaN(r.increase)
                ELSE IsDifference(r.increase, r.modified_breach_ratio,
                                  r.baseline_breach_ratio)

\* a label whose baseline ratio is above its modified ratio, both above 0:
\* the increase returned is negative
C17_Witness ==
    /\ ComfortDone
    /\ \E label \in DOMAIN threshold_results :
         LET r == threshold_results[label]
         IN  /\ FGt(r.modified_breach_ratio, FromInt(0))
             /\ FGt(r.baseline_breach_ratio, r.modified_breach_ratio)
             /\ FGt(FromInt(0), r.increase)

(***************************************************************************)
(* C18. For two labels of one analysis with numeric thresholds t1 <= t2,   *)
(* neither breach ratio at t2 is above the one at t1, and a majority       *)
(* breach at t2 implies one at t1 that is not later.                       *)
(***************************************************************************)
C18_Monotonicity ==
    ComfortDone =>
        \A l1, l2 \in DOMAIN threshold_results :
            LET r1 == threshold_results[l1]
                r2 == threshold_results[l2]
            IN  (/\ r1.threshold_temp.k = "num"
                 /\ r2.threshold_temp.k = "num"
                 /\ r1.threshold_temp.v <= r2.threshold_temp.v) =>
                  /\ ~IsNaN(r1.baseline_breach_ratio) =>
                        FGe(r1.baseline_breach_ratio, r2.baseline_breach_ratio)
                  /\ ~IsNaN(r1.modified_breach_ratio) =>
                        FGe(r1.modified_breach_ratio, r2.modified_breach_ratio)
                  /\ r2.first_breach_time # <<>> =>
                        /\ r1.first_breach_time # <<>>
                        /\ r1.first_breach_time[1] <= r2.first_breach_time[1]

\* two labels with t1 < t2 where the ratio at t2 is positive and smaller than
\* the one at t1, and the majority breach at t2 comes later than at t1
C18_Witness ==
    /\ ComfortDone
    /\ \E l1, l2 \in DOMAIN threshold_results :
         LET r1 == threshold_results[l1]
             r2 == threshold_results[l2]
         IN  /\ r1.threshold_temp.k = "num"
             /\ r2.threshold_temp.k = "num"
             /\ r1.threshold_temp.v < r2.threshold_temp.v
             /\ FGt(r2.modified_breach_ratio, FromInt(0))
             /\ FGt(r1.modified_breach_ratio, r2.modified_breach_ratio)
             /\ r2.first_breach_time # <<>>
             /\ r1.first_breach_time # <<>>
             /\ r1.first_breach_time[1] < r2.first_breach_time[1]

\* the percentages k buildings out of all can make: 100 * k / B
WholeBuildingShares ==
    { Rat(100 * k, Cardinality(Buildings)) : k \in 0..Cardinality(Buildings) }

(***************************************************************************)
(* C19. When the event window of a table is a single row, its breach       *)
(* ratio for a numeric threshold t is 100 * k / B, where k is the number   *)
(* of the B buildings above t in that row, so every building counts 0 or   *)
(* 100 percent.                                                            *)
(***************************************************************************)
C19_SingleRowWindow ==
    ComfortDone =>
        \A label \in DOMAIN threshold_results :
            LET r == threshold_results[label]
                t == r.threshold_temp
            IN  t.k = "num" =>
                  /\ Cardinality(EventRows(baseline_csv)) = 1 =>
                        /\ r.baseline_breach_ratio \in WholeBuildingShares
                        /\ \A i \in EventRows(baseline_csv) :
                              r.baseline_breach_ratio =
                                  Rat(100 * AboveCount(baseline_csv, i, t.v),
                                      Cardinality(Buildings))
                  /\ Cardinality(EventRows(modified_csv)) = 1 =>
                        /\ r.modified_breach_ratio \in WholeBuildingShares
                        /\ \A i \in EventRows(modified_csv) :
                              r.modified_breach_ratio =
                                  Rat(100 * AboveCount(modified_csv, i, t.v),
                                      Cardinality(Buildings))

\* the window is the last of several rows and one of two buildings is above
\* the threshold there: the ratio returned is 50
C19_Witness ==
    /\ ComfortDone
    /\ Cardinality(Buildings) = 2
    /\ Len(modified_csv.rows) > 1
    /\ EventRows(modified_csv) = {Len(modified_csv.rows)}
    /\ \E label \in DOMAIN threshold_results :
         LET r == threshold_results[label]
         IN  /\ r.threshold_temp.k = "num"
             /\ AboveCount(modified_csv, Len(modified_csv.rows), r.threshold_temp.v) = 1
             /\ r.modified_breach_ratio = FromInt(50)

ResultFields ==
    {"threshold_temp", "baseline_breach_ratio", "modified_breach_ratio", "increase",
     "first_breach_time", "hours_after_event_start"}

\* the labels and values of the threshold set the analysis was asked for
LabelsInUse ==
    IF thresholds = <<>>
    THEN [comfort_limit |-> Num(26), acceptable_limit |-> Num(28),
          health_risk |-> Num(30), severe_risk |-> Num(35)]
    ELSE thresholds[1]

(***************************************************************************)
(* C20. The returned mapping has exactly one entry per label of the        *)
(* threshold set in use, the set comfort_limit 26, acceptable_limit 28,    *)
(* health_risk 30, severe_risk 35 when none is given.  Every entry holds   *)
(* all six fields, a label without majority breach with both breach        *)
(* fields null, and equals the entry the analysis returns when asked for   *)
(* that label alone.                                                       *)
(***************************************************************************)
C20_OneEntryPerLabel ==
    ComfortDone =>
        /\ DOMAIN threshold_results = DOMAIN LabelsInUse
        /\ \A label \in DOMAIN threshold_results :
             LET r == threshold_results[label]
             IN  /\ DOMAIN r = ResultFields
                 /\ r.threshold_temp = LabelsInUse[label]
                 /\ r = ComfortResults(baseline_csv, modified_csv,
                            <<[l \in {label} |-> LabelsInUse[label]]>>)[label]

\* thresholds given by the caller, one label with a majority breach and one
\* without, which is returned with both breach fields null
C20_Witness ==
    /\ ComfortDone
    /\ thresholds # <<>>
    /\ DOMAIN threshold_results = DOMAIN thresholds[1]
    /\ \E l1, l2 \in DOMAIN threshold_results :
         /\ threshold_results[l1].first_breach_time # <<>>
         /\ threshold_results[l2].threshold_temp.k = "num"
         /\ threshold_results[l2].first_breach_time = <<>>
         /\ threshold_results[l2].hours_after_event_start = <<>>

(***************************************************************************)
(* C21. No step of analyze_epw_hottest_days or analyse_comfort_thresholds  *)
(* changes an argument of any invocation: the weather rows, the baseline   *)
(* and the modified frame, the building column list and the thresholds     *)
(* stay as the caller passed them.                                         *)
(***************************************************************************)
C21_Purity == [][call_args' = call_args]_vars

\* an analyzer invocation has returned its results for an event that starts
\* at the second row, a detector invocation has returned its window, and the
\* frames, the column list and the weather rows are still complete
C21_Witness ==
    /\ \E c \in DOMAIN call_args :
         /\ call_args[c].fn = "analyzer"
         /\ call_pc[c] = "returned"
         /\ call_result[c].raised = ""
         /\ call_args[c].start_hour = 2
         /\ Len(call_args[c].baseline_df.rows) = 2
         /\ Len(call_args[c].modified_df.rows) = 2
         /\ call_args[c].building_cols = <<"A", "B">>
         /\ DOMAIN call_args[c].thresholds[1] = {"warm", "hot"}
    /\ \E c \in DOMAIN call_args :
         /\ call_args[c].fn = "detector"
         /\ call_pc[c] = "returned"
         /\ call_result[c].success
         /\ Len(call_args[c].epw) = 2

(***************************************************************************)
(* C22. Whatever the interleaving of the steps of the invocations, each    *)
(* invocation returns what its function returns for its arguments when it  *)
(* runs alone from start to end.                                           *)
(***************************************************************************)
C22_InterleavingSafe ==
    \A c \in DOMAIN call_pc :
        call_pc[c] = "returned" => call_result[c] = RunAlone(call_args[c])

\* two invocations of the same function on different arguments: one has
\* returned a result, the other is between two of its steps with its locals set
C22_Witness ==
    \E c1, c2 \in DOMAIN call_pc :
        /\ call_args[c1].fn = call_args[c2].fn
        /\ call_args[c1] # call_args[c2]
        /\ call_pc[c1] = "returned"
        /\ call_result[c1] # RunAlone(call_args[c2])
        /\ \/ call_pc[c2] = "sorted" /\ call_frame[c2].all_days # <<>>
           \/ call_pc[c2] = "masked" /\ DOMAIN call_frame[c2].results # {}

(***************************************************************************)
(* Vocabulary of the claims about run_energyplus_simulation                *)
(***************************************************************************)
SimDone == sim_pc = "returned"

\* the exceptions the ExpandObjects block can end with
ExpandFailures == {"copy_error", "process_error", "timeout"}

\* C23: run_energyplus_simulation reports success = true exactly when the
\* EnergyPlus run it just performed exited with status 0 and eplusout.csv is
\* present in the output directory.
C23_SuccessIffExitZeroAndCsv ==
    SimDone =>
        (sim_result.success <=> (sim_rc = <<0>> /\ "eplusout.csv" \in sim_files))

\* EnergyPlus has been launched with the IDF file the caller passed
InvokedWithOriginal == sim_invoked # <<>> /\ sim_invoked[1].idf = "original"

\* C30: a failure of the ExpandObjects step (copy error, process error or its
\* 300 s timeout) never aborts run_energyplus_simulation: EnergyPlus is still
\* launched afterwards, with the original IDF; and when EnergyPlus itself runs
\* into the timeout the function returns success = false with a timeout error
\* instead of raising.
C30_ExpandFailureTolerated ==
    /\ (sim_expand \in ExpandFailures) ~> InvokedWithOriginal
    /\ [](sim_expand \in ExpandFailures /\ SimDone => InvokedWithOriginal)
    /\ []((sim_invoked # <<>> /\ sim_invoked[1].ended = "timeout")
            => /\ SimDone
               /\ sim_result = [success |-> FALSE, error |-> "Simulation timeout"])

C30_Witness ==
    /\ SimDone
    /\ sim_expand = "timeout"
    /\ "expanded.idf" \in sim_files
    /\ InvokedWithOriginal
    /\ sim_invoked[1].ended = "timeout"
    /\ sim_result.success = FALSE

(***************************************************************************)
(* Vocabulary of the claims about modify_idf_hvac_schedule                 *)
(***************************************************************************)
HvacSaved == hvac_out # <<>> /\ hvac_result.success

LastDayOf(month) == IF month = 2 THEN 28 ELSE IF month \in {4, 6, 9, 11} THEN 30 ELSE 31

\* the days of a 365-day year
CalendarDays == { c \in (1..12) \X (1..31) : c[2] <= LastDayOf(c[1]) }

OnOrBefore(c, month, day) == c[1] < month \/ (c[1] = month /\ c[2] <= day)

\* the day of the year as a count of calendar days
DoyOf(month, day) == Cardinality({ c \in CalendarDays : OnOrBefore(c, month, day) })

\* the end of the outage as the claim gives it
OutageEnd ==
    IF hvac_args.end_month = <<>> THEN <<12, 31>>
    ELSE IF hvac_args.end_day = <<>>
         THEN <<hvac_args.end_month[1], LastDayOf(hvac_args.end_month[1])>>
         ELSE <<hvac_args.end_month[1], hvac_args.end_day[1]>>

\* C24: the schedule written by modify_idf_hvac_schedule has one entry per
\* day of a 365-day year, in calendar order; for every action other than
\* enable_all its value is 0 on exactly the days whose day of year lies in
\* [start, end] and 1 on the others, with end = 12/31 when end_month is None
\* and the last day of end_month when only end_day is None; for enable_all it
\* is 1 on all days.
C24_OutageSchedule ==
    HvacSaved =>
        LET f == hvac_out[1].schedule.fields
            first == DoyOf(hvac_args.start_month, hvac_args.start_day)
            last == DoyOf(OutageEnd[1], OutageEnd[2])
        IN /\ Len(f) = 365
           /\ \A k \in 1..Len(f) :
                /\ <<f[k].month, f[k].day>> \in CalendarDays
                /\ k > 1 => /\ OnOrBefore(<<f[k - 1].month, f[k - 1].day>>, f[k].month, f[k].day)
                            /\ <<f[k - 1].month, f[k - 1].day>> # <<f[k].month, f[k].day>>
                /\ f[k].value = IF /\ hvac_args.schedule_action # "enable_all"
                                   /\ first <= k
                                   /\ k <= last
                                THEN 0 ELSE 1

\* an outage from 2/28 to the last day of July: off on 2/28 and 7/31, on the
\* day before and the day after
C24_Witness ==
    /\ HvacSaved
    /\ hvac_args.schedule_action = "disable_cooling"
    /\ <<hvac_args.start_month, hvac_args.start_day>> = <<2, 28>>
    /\ hvac_args.end_month = <<7>>
    /\ hvac_args.end_day = <<>>
    /\ LET f == hvac_out[1].schedule.fields
       IN /\ f[58].value = 1
          /\ f[59].value = 0
          /\ f[212].value = 0
          /\ <<f[212].month, f[212].day>> = <<7, 31>>
          /\ f[213].value = 1

\* the systems of the saved IDF whose cooling or heating availability
\* schedule is no longer the one of the input file
ChangedSystems ==
    UNION { { <<class, i>> : i \in { j \in 1..Len(hvac_idf[class]) :
                                       hvac_out[1][class][j] # hvac_idf[class][j] } } :
            class \in {"templates", "zonehvac"} }

\* C25: systems_modified in the result of modify_idf_hvac_schedule equals the
\* number of HVAC systems whose availability schedule was changed, for every
\* action, disable_all included.
C25_SystemsModifiedCount ==
    HvacSaved => hvac_result.systems_modified = Cardinality(ChangedSystems)

(***************************************************************************)
(* Vocabulary of the claims about the two batch functions                  *)
(***************************************************************************)
BatchDone == batch_pc = "returned" /\ batch_result.success

\* the .idf names of the directory
IdfNamesOfDir == { batch_dir[i].name : i \in { j \in 1..Len(batch_dir) : batch_dir[j].ext = "idf" } }

\* the place of a name in the sorted order of the .idf names
RankOf(name) == Cardinality({ n \in IdfNamesOfDir : n <= name })

\* C26: max_buildings is an upper bound for every integer >= 0: both batch
\* functions process at most max_buildings files, the first ones in sorted
\* order, and report total_buildings <= max_buildings.
C26_MaxBuildingsIsUpperBound ==
    (BatchDone /\ batch_args.max_buildings # <<>>) =>
        /\ batch_result.total_buildings <= batch_args.max_buildings[1]
        /\ Len(batch_result.results) <= batch_args.max_buildings[1]
        /\ \A k \in 1..Len(batch_result.results) : RankOf(batch_result.results[k].file) = k

\* C29: after a batch run that returned success = true, results has
\* total_buildings entries, the successes and the failures add up to
\* total_buildings, the k-th result carries index k and total =
\* total_buildings and is the k-th .idf file in sorted order: a building
\* that failed does not keep the later ones from being processed.
C29_BatchAccounting ==
    BatchDone =>
        LET r == batch_result
        IN /\ Len(r.results) = r.total_buildings
           /\ r.successful + r.failed = r.total_buildings
           /\ r.successful = Cardinality({ k \in 1..Len(r.results) : r.results[k].success })
           /\ \A k \in 1..Len(r.results) :
                /\ r.results[k].index = k
                /\ r.results[k].total = r.total_buildings
                /\ r.results[k].file \in IdfNamesOfDir
                /\ RankOf(r.results[k].file) = k
           /\ r.total_buildings = Cardinality(IdfNamesOfDir)
                \/ (batch_args.max_buildings # <<>>
                      /\ r.total_buildings = batch_args.max_buildings[1])

\* three buildings listed out of order, the first one failed, the two after
\* it were processed, the last with success
C29_Witness ==
    /\ BatchDone
    /\ Len(batch_dir) = 3
    /\ batch_dir[1].name > batch_dir[2].name
    /\ batch_result.total_buildings = 3
    /\ Len(batch_result.results) = 3
    /\ ~batch_result.results[1].success
    /\ batch_result.results[3].success
    /\ batch_result.failed >= 1

(***************************************************************************)
(* Vocabulary of the claim about the two averaging orders                  *)
(***************************************************************************)
RatioDone == ratio_avg # NotCalled

RECURSIVE TotalCount(_, _)
TotalCount(counts, n) == IF n = 0 THEN 0 ELSE counts[n] + TotalCount(counts, n - 1)

\* 100 * (breaching building-hours) / (event rows * buildings) in binary64:
\* numerator and denominator are exact, the quotient is rounded once
PooledPercentage ==
    F64Quotient(100 * TotalCount(ratio_counts, Len(ratio_counts)),
                ratio_rows * Len(ratio_counts))

\* the next binary64 number above a positive x
NextUp(x) ==
    IF \A i \in 1..53 : x.m[i] = 1
    THEN [m |-> <<1>> \o Zeros(52), e |-> x.e + 1]
    ELSE [m |-> IncBits(x.m), e |-> x.e]

\* x and the k binary64 numbers above it
RECURSIVE UpTo(_, _)
UpTo(x, k) == IF k = 0 THEN {x} ELSE {x} \cup UpTo(NextUp(x), k - 1)

\* x and y are at most k binary64 numbers apart
WithinSteps(x, y, k) ==
    IF x = Zero64 \/ y = Zero64 THEN x = y
    ELSE y \in UpTo(x, k) \/ x \in UpTo(y, k)

\* C27 as stated: the mean of the per-building ratios computed by
\* analyse_comfort_thresholds always equals the pooled breach percentage
\* 100 * (total breaching building-hours) / (event rows * building count),
\* on every input with a non-empty window and at least one building.
C27_MeanEqualsPooled == RatioDone => ratio_avg = PooledPercentage

\* C27 as amended: the mean of the per-building ratios equals the pooled
\* breach percentage up to floating-point rounding: the binary64 number the
\* code returns and the binary64 pooled percentage are at most
\* 2 * (building count + 3) adjacent binary64 numbers apart.
C27_MeanNearPooled ==
    RatioDone => WithinSteps(ratio_avg, PooledPercentage, 2 * (Len(ratio_counts) + 3))

\* three event rows, two buildings, one and two breach hours: the pooled
\* percentage is 50.0 and the mean of the ratios the binary64 number below it
C27_Witness ==
    /\ RatioDone
    /\ ratio_rows = 3
    /\ ratio_counts = <<1, 2>>
    /\ PooledPercentage = [m |-> <<1, 1, 0, 0, 1>> \o Zeros(48), e |-> -47]
    /\ ratio_avg # PooledPercentage
    /\ NextUp(ratio_avg) = PooledPercentage

(***************************************************************************)
(* C28. The day-of-year mapping is injective on the calendar days of the   *)
(* input: two distinct (month, day) keys never get the same doy, so the    *)
(* daily aggregates stand in strictly ascending doy order, also when the   *)
(* file is of a leap year and holds both 2/29 and 3/1.                     *)
(***************************************************************************)
C28_DoyInjective ==
    RanOnSamples =>
        /\ \A k1, k2 \in SampleKeys :
              k1 # k2 => to_day_of_year(k1[1], k1[2]) # to_day_of_year(k2[1], k2[2])
        /\ \A i, j \in 1..Len(SortedDays) : i < j => SortedDays[i][1] < SortedDays[j][1]

====
